---- MODULE Spec2Model ----
(***************************************************************************)
(* FundTracker: the proxy fetcher, the response parsers, the fund / index  *)
(* data client (src/services/fundService.ts) and the batch update          *)
(* scheduler with the watchlist store, in its two App variants             *)
(* (src/App.tsx and src/unnamed/part_000).                                 *)
(*                                                                         *)
(* JavaScript strings are sequences of one-character strings; response     *)
(* bodies are sequences of tokens, each token standing for a fixed piece   *)
(* of text.  JavaScript values are tagged records.                         *)
(***************************************************************************)
EXTENDS Integers, Sequences, FiniteSets, TLC

\* ------------------------------------------------------------------------
\* JavaScript values
\* ------------------------------------------------------------------------
Undefined == [t |-> "undefined"]
Null == [t |-> "null"]
NaN == [t |-> "nan"]
Str(s) == [t |-> "str", s |-> s]
\* a finite number m / 10^d, d minimal
Num(m, d) == [t |-> "num", m |-> m, d |-> d]
Obj(f) == [t |-> "obj", f |-> f]
Arr(a) == [t |-> "arr", a |-> a]
\* a rejected promise / a thrown exception
Rejected == [t |-> "rejected"]

IsStr(v) == v.t = "str"
IsNumber(v) == v.t \in {"num", "nan"}

\* ToBoolean
Truthy(v) ==
  CASE v.t = "undefined" -> FALSE
    [] v.t = "null" -> FALSE
    [] v.t = "nan" -> FALSE
    [] v.t = "str" -> v.s # <<>>
    [] v.t = "num" -> v.m # 0
    [] OTHER -> TRUE

\* a || b
Or(a, b) == IF Truthy(a) THEN a ELSE b

\* v?.k  (a property the primitives do not have)
Get(v, k) ==
  IF v.t = "obj" /\ k \in DOMAIN v.f THEN v.f[k] ELSE Undefined

\* ------------------------------------------------------------------------
\* Strings
\* ------------------------------------------------------------------------
Digits == <<"0", "1", "2", "3", "4", "5", "6", "7", "8", "9">>
IsDigit(c) == \E k \in 1..10 : Digits[k] = c
DigitVal(c) == (CHOOSE k \in 1..10 : Digits[k] = c) - 1

\* s.includes(c) for a one-character c
Includes(s, c) == \E i \in 1..Len(s) : s[i] = c

\* s.substring(from) with a 0-based index
Substring(s, from) == IF from >= Len(s) THEN <<>> ELSE SubSeq(s, from + 1, Len(s))

RECURSIVE TrimLeft(_)
TrimLeft(s) == IF s # <<>> /\ Head(s) = " " THEN TrimLeft(Tail(s)) ELSE s

RECURSIVE TrimRight(_)
TrimRight(s) ==
  IF s # <<>> /\ s[Len(s)] = " " THEN TrimRight(SubSeq(s, 1, Len(s) - 1)) ELSE s

\* s.trim()
Trim(s) == TrimRight(TrimLeft(s))

\* s.split(' ')[0]
RECURSIVE SplitFirst(_)
SplitFirst(s) ==
  IF s = <<>> \/ Head(s) = " " THEN <<>> ELSE <<Head(s)>> \o SplitFirst(Tail(s))

\* s.padStart(n, '0')
RECURSIVE padStart(_, _)
padStart(s, n) == IF Len(s) >= n THEN s ELSE padStart(<<"0">> \o s, n)

\* /^\d{5,6}$/.test(s)
IsSymbol(s) == Len(s) \in {5, 6} /\ \A i \in 1..Len(s) : IsDigit(s[i])

\* the longest run of digits at the head of s
RECURSIVE DigitRun(_)
DigitRun(s) ==
  IF s # <<>> /\ IsDigit(Head(s)) THEN <<Head(s)>> \o DigitRun(Tail(s)) ELSE <<>>

RECURSIVE DigitsValue(_)
DigitsValue(ds) ==
  IF ds = <<>> THEN 0 ELSE 10 * DigitsValue(SubSeq(ds, 1, Len(ds) - 1)) + DigitVal(ds[Len(ds)])

RECURSIVE StripZeros(_)
StripZeros(ds) ==
  IF ds # <<>> /\ ds[Len(ds)] = "0" THEN StripZeros(SubSeq(ds, 1, Len(ds) - 1)) ELSE ds

\* parseFloat of a string: leading blanks, a sign, digits, a fraction; NaN
\* when no digit was read (exponents are outside the alphabet of the model)
ParseFloatStr(s0) ==
  LET s1 == TrimLeft(s0)
      neg == s1 # <<>> /\ Head(s1) = "-"
      s2 == IF s1 # <<>> /\ Head(s1) \in {"-", "+"} THEN Tail(s1) ELSE s1
      ip == DigitRun(s2)
      s3 == Substring(s2, Len(ip))
      fp0 == IF s3 # <<>> /\ Head(s3) = "." THEN DigitRun(Tail(s3)) ELSE <<>>
      fp == StripZeros(fp0)
      mag == DigitsValue(ip \o fp)
  IN IF ip = <<>> /\ fp0 = <<>> THEN NaN
     ELSE Num(IF neg THEN 0 - mag ELSE mag, Len(fp))

\* parseFloat(v): a number is converted to its text and read back, every
\* other non-string has a text that starts with no digit
parseFloat(v) ==
  CASE v.t = "str" -> ParseFloatStr(v.s)
    [] v.t = "num" -> v
    [] OTHER -> NaN

\* ------------------------------------------------------------------------
\* Response bodies: sequences of tokens
\* ------------------------------------------------------------------------
\* the JSON texts a live-valuation body carries between its parentheses
JsonFull ==
  Obj([name |-> Str(<<"V">>), dwjz |-> Str(<<"1", ".", "5">>),
       gsz |-> Str(<<"1", ".", "6">>), gszzl |-> Str(<<"0", ".", "5">>),
       gztime |-> Str(<<"1", "4", ":", "3", "2">>),
       jzrq |-> Str(<<"2", "0", "2", "4", "-", "0", "5", "-", "3", "1">>)])
\* {"dwjz":"n/a","gsz":"","gztime":"2024-06-01 14:32"}
JsonPartial ==
  Obj([dwjz |-> Str(<<"n", "/", "a">>), gsz |-> Str(<<>>),
       gztime |-> Str(<<"2", "0", "2", "4", "-", "0", "6", "-", "0", "1", " ",
                        "1", "4", ":", "3", "2">>)])
\* {"gsz":1.6,"gztime":1717223520}: numbers where strings are expected
JsonNumeric ==
  Obj([gsz |-> Num(16, 1), gztime |-> Num(1717223520, 0)])

\* a quote document {"rc":0,"data":{"f43":3100.5,"f169":"-","f170":-0.52,...}}
JsonQuote ==
  Obj([data |-> Obj([f43 |-> Num(31005, 1), f169 |-> Str(<<"-">>),
                     f170 |-> Num(0 - 52, 2), f58 |-> Str(<<"S", "H">>),
                     f124 |-> Num(1717223520, 0)])])

\* [{"id":"r1","symbol":"000001","name":""}]
JsonWatchlist ==
  Arr(<<Obj([id |-> Str(<<"r1">>),
             symbol |-> Str(<<"0", "0", "0", "0", "0", "1">>),
             name |-> Str(<<>>)])>>)

JsonTexts ==
  {"{full}", "{partial}", "{numeric}", "{}", "null",
   "{data}", "{data:null}", "{nodata f43}", "[]", "[ticker]"}

JsonValue(tok) ==
  CASE tok = "{full}" -> JsonFull
    [] tok = "{partial}" -> JsonPartial
    [] tok = "{numeric}" -> JsonNumeric
    [] tok = "{}" -> Obj(<<>>)
    [] tok = "null" -> Null
    [] tok = "{data}" -> JsonQuote
    [] tok = "{data:null}" -> Obj([data |-> Null])
    [] tok = "{nodata f43}" -> Obj([msg |-> Str(<<"f", "4", "3">>)])
    [] tok = "[]" -> Arr(<<>>)
    [] tok = "[ticker]" -> JsonWatchlist

\* JSON.parse(text): the value, or Rejected for a SyntaxError
JSONParse(text) ==
  IF Len(text) = 1 /\ text[1] \in JsonTexts THEN JsonValue(text[1]) ELSE Rejected

\* the statements a profile script is made of: the variable assigned, whether
\* the value is quoted, and the text after the '=' (a quoted value without
\* its quotes)
StmtTexts ==
  {"var fS_name = 'P';", "var fS_code = '000001';", "var fS_name = '';",
   "var dwjz = 1.4;", "var dwjz = ' 1.3 ';", "var gsz = '1.7';",
   "var gszzl = -0.2;", "var gztime = '2024-06-01 15:00:00';",
   "var fs_jzrq = '2024-05-30';", "var fS_name = null;", "var dwjz = '';"}

Stmt(tok) ==
  CASE tok = "var fS_name = 'P';" -> [var |-> "fS_name", quoted |-> TRUE, val |-> <<"P">>]
    [] tok = "var fS_code = '000001';" ->
         [var |-> "fS_code", quoted |-> TRUE, val |-> <<"0", "0", "0", "0", "0", "1">>]
    [] tok = "var fS_name = '';" -> [var |-> "fS_name", quoted |-> TRUE, val |-> <<>>]
    [] tok = "var dwjz = '';" -> [var |-> "dwjz", quoted |-> TRUE, val |-> <<>>]
    [] tok = "var dwjz = 1.4;" -> [var |-> "dwjz", quoted |-> FALSE, val |-> <<"1", ".", "4", ";">>]
    [] tok = "var dwjz = ' 1.3 ';" ->
         [var |-> "dwjz", quoted |-> TRUE, val |-> <<" ", "1", ".", "3", " ">>]
    [] tok = "var gsz = '1.7';" -> [var |-> "gsz", quoted |-> TRUE, val |-> <<"1", ".", "7">>]
    [] tok = "var gszzl = -0.2;" ->
         [var |-> "gszzl", quoted |-> FALSE, val |-> <<"-", "0", ".", "2", ";">>]
    [] tok = "var gztime = '2024-06-01 15:00:00';" ->
         [var |-> "gztime", quoted |-> TRUE,
          val |-> <<"2", "0", "2", "4", "-", "0", "6", "-", "0", "1", " ",
                    "1", "5", ":", "0", "0", ":", "0", "0">>]
    [] tok = "var fs_jzrq = '2024-05-30';" ->
         [var |-> "fs_jzrq", quoted |-> TRUE,
          val |-> <<"2", "0", "2", "4", "-", "0", "5", "-", "3", "0">>]
    [] tok = "var fS_name = null;" ->
         [var |-> "fS_name", quoted |-> FALSE, val |-> <<"n", "u", "l", "l", ";">>]

\* text.includes(word) for the words the validators look for
TextIncludes(text, word) ==
  \E i \in 1..Len(text) :
    \/ text[i] = word
    \/ text[i] \in StmtTexts /\ Stmt(text[i]).var = word
    \/ word = "f43" /\ text[i] \in {"{data}", "{data:null}", "{nodata f43}"}
    \/ word = "\"data\":" /\ text[i] \in {"{data}", "{data:null}", "{data"}

\* the longest prefix of s made of the characters of the class [\d\.-]
RECURSIVE NumRun(_)
NumRun(s) ==
  IF s # <<>> /\ (IsDigit(Head(s)) \/ Head(s) \in {".", "-"})
  THEN <<Head(s)>> \o NumRun(Tail(s)) ELSE <<>>

\* the first position of text that holds one of toks, 0 when there is none
FirstIndex(text, toks) ==
  IF \E i \in 1..Len(text) : text[i] \in toks
  THEN CHOOSE i \in 1..Len(text) : text[i] \in toks /\ \A j \in 1..(i - 1) : text[j] \notin toks
  ELSE 0

extractVar(content, varName) ==
  LET quoted == {tok \in StmtTexts : Stmt(tok).var = varName /\ Stmt(tok).quoted}
      numeric == {tok \in StmtTexts : /\ Stmt(tok).var = varName
                                      /\ ~Stmt(tok).quoted
                                      /\ NumRun(Stmt(tok).val) # <<>>}
      m == FirstIndex(content, quoted)
      n == FirstIndex(content, numeric)
  IN IF m > 0 /\ Stmt(content[m]).val # <<>> THEN Trim(Stmt(content[m]).val)
     ELSE IF n > 0 THEN NumRun(Stmt(content[n]).val)
     ELSE <<>>

\* content.indexOf(c) and content.lastIndexOf(c), 0-based, -1 when absent
indexOf(content, c) ==
  IF \E i \in 1..Len(content) : content[i] = c
  THEN (CHOOSE i \in 1..Len(content) :
          content[i] = c /\ \A j \in 1..(i - 1) : content[j] # c) - 1
  ELSE 0 - 1

\* the first occurrence taken for the last
lastIndexOf_First(content, c) == indexOf(content, c)

lastIndexOf(content, c) ==
  IF \E i \in 1..Len(content) : content[i] = c
  THEN (CHOOSE i \in 1..Len(content) :
          content[i] = c /\ \A j \in (i + 1)..Len(content) : content[j] # c) - 1
  ELSE 0 - 1

parseJsonpgz(content) ==
  LET start == indexOf(content, "(") + 1
      end == lastIndexOf(content, ")")
      parsed == JSONParse(SubSeq(content, start + 1, end))
  IN IF start > 0 /\ end > start /\ parsed # Rejected THEN parsed ELSE Null

\* ------------------------------------------------------------------------
\* The network
\* ------------------------------------------------------------------------
\* the bodies a relay or an upstream server may deliver with an OK status
ValuationBodies ==
  { <<"jsonpgz", "(", "{full}", ")", ";">>,
    <<"jsonpgz", "(", "{partial}", ")", ";">>,
    <<"jsonpgz", "(", "{numeric}", ")", ";">>,
    <<"jsonpgz", "(", "{}", ")", ";">>,
    <<"jsonpgz", "(", "null", ")", ";">>,
    <<"jsonpgz", "(", ")", ";">>,
    <<"jsonpgz", "(", "{bad", ")", ";">>,
    <<")", "jsonpgz", "(">> }

PrimaryBodies ==
  { <<"var fS_name = 'P';", "var fS_code = '000001';", "var dwjz = 1.4;">>,
    <<"var fS_name = '';", "var fS_name = null;", "var dwjz = ' 1.3 ';",
      "var gsz = '1.7';", "var gszzl = -0.2;",
      "var gztime = '2024-06-01 15:00:00';", "var fs_jzrq = '2024-05-30';">>,
    <<"var fS_code = '000001';">> }

IndexBodies ==
  { <<"{data}">>, <<"{data:null}">>, <<"{nodata f43}">>, <<"{data">> }

\* an empty body and an error page served with status 200
OtherBodies == { <<>>, <<"<html>">> }

AllBodies == ValuationBodies \cup PrimaryBodies \cup IndexBodies \cup OtherBodies

\* a payload as a relay wraps it: {"contents":"<payload>"}
Envelope(payload) == <<"{\"contents\":\"">> \o payload \o <<"\"}">>

\* how one request can end: fetch() rejects (network error), the 7 s timer
\* aborts it, a response with a non-OK status, a response whose body cannot
\* be read, or an OK response with a body
Failures == {"error", "timeout", "status", "textfail"}
Outcome(kind, text) == [kind |-> kind, text |-> text]
AttemptOutcomes ==
  {Outcome(k, <<>>) : k \in Failures} \cup {Outcome("body", b) : b \in AllBodies}

Validators == {"primary", "valuation", "index"}

\* the validator each caller passes to fetchWithProxy
Validate(v, text) ==
  CASE v = "primary" ->
         \/ TextIncludes(text, "fS_code")
         \/ TextIncludes(text, "fS_name")
         \/ TextIncludes(text, "dwjz")
    [] v = "valuation" -> TextIncludes(text, "jsonpgz")
    [] v = "index" -> TextIncludes(text, "\"data\":") \/ TextIncludes(text, "f43")

\* the proxy strategies, in list order: direct, allorigins, corsproxy, codetabs
proxies == <<"direct", "allorigins", "corsproxy", "codetabs">>
NumProxies == Len(proxies)

\* a fetchWithProxy that returns any non-empty body of an OK response
AttemptReturns_AnyBody(o, v) == o.kind = "body" /\ o.text # <<>>

\* `if (text && validator(text)) return text`
AttemptReturns(o, v) == o.kind = "body" /\ o.text # <<>> /\ Validate(v, o.text)

\* the value a fetchWithProxy call that runs from strategy i on resolves to,
\* when the network answers attempt k with net[k]
RECURSIVE fetchWithProxyFrom(_, _, _)
fetchWithProxyFrom(i, net, v) ==
  IF i > NumProxies THEN Null
  ELSE IF AttemptReturns(net[i], v) THEN Str(net[i].text)
  ELSE fetchWithProxyFrom(i + 1, net, v)

fetchWithProxy(net, v) == fetchWithProxyFrom(1, net, v)

\* ------------------------------------------------------------------------
\* Fund / index data client
\* ------------------------------------------------------------------------
\* the day the fetch runs on (new Date()): 2024-06-01
TodayStr == <<"2", "0", "2", "4", "-", "0", "6", "-", "0", "1">>
TodayMMDD == <<"0", "6", "-", "0", "1">>

\* the five characters of the placeholder of lastUpdated, one token each
Loading == <<"shu", "ju", "jia", "zai", "zhong">>
\* `基金(${code})`
NamePlaceholder(code) == <<"ji", "jin", "(">> \o code \o <<")">>
NoDate == <<"-", "-", "-">>

\* the settled value of one of the two promises given to Promise.allSettled
SettledValue(res) == IF res = Rejected THEN Null ELSE res

\* the body of the try block of fetchFundData: the value returned, or
\* Rejected when a statement of the block throws
fetchFundDataTry(symbol, resPrimary, resValuation) ==
  LET code == padStart(symbol, 6)
      contentPrimary == SettledValue(resPrimary)
      contentValuation == SettledValue(resValuation)
      valInfo == IF Truthy(contentValuation) THEN parseJsonpgz(contentValuation.s) ELSE Null
      baseInfo ==
        IF Truthy(contentPrimary)
        THEN Obj([name |-> Str(extractVar(contentPrimary.s, "fS_name")),
                  dwjz |-> Str(extractVar(contentPrimary.s, "dwjz")),
                  gsz |-> Str(extractVar(contentPrimary.s, "gsz")),
                  gszzl |-> Str(extractVar(contentPrimary.s, "gszzl")),
                  gztime |-> Str(extractVar(contentPrimary.s, "gztime")),
                  jzrq |-> Str(extractVar(contentPrimary.s, "fs_jzrq"))])
        ELSE Null
      name == Or(Or(Get(valInfo, "name"), Get(baseInfo, "name")), Str(NamePlaceholder(code)))
      dwjz == parseFloat(Or(Or(Get(valInfo, "dwjz"), Get(baseInfo, "dwjz")), Str(<<"0">>)))
      gszRaw == Or(Get(valInfo, "gsz"), Get(baseInfo, "gsz"))
      gsz == IF Truthy(gszRaw) THEN parseFloat(gszRaw) ELSE dwjz
      gszzl == parseFloat(Or(Or(Get(valInfo, "gszzl"), Get(baseInfo, "gszzl")), Str(<<"0">>)))
      gztime == Or(Or(Get(valInfo, "gztime"), Get(baseInfo, "gztime")), Str(Loading))
      jzrq == Or(Or(Get(valInfo, "jzrq"), Get(baseInfo, "jzrq")), Str(NoDate))
      dated == Truthy(gszRaw) /\ Truthy(gztime) /\ gztime # Str(Loading)
      \* gztime.includes is not a function when gztime is not a string
      throws == dated /\ ~IsStr(gztime)
      finalValuationDate ==
        IF dated
        THEN IF Includes(gztime.s, "-") /\ Len(gztime.s) > 10
             THEN Str(SplitFirst(gztime.s)) ELSE Str(TodayStr)
        ELSE jzrq
      \* the length of a non-string is undefined and both comparisons are false
      finalGzTime ==
        IF IsStr(gztime) /\ Truthy(gztime) /\ Len(gztime.s) <= 5 /\ Includes(gztime.s, ":")
        THEN Str(TodayMMDD \o <<" ">> \o gztime.s)
        ELSE IF IsStr(gztime) /\ Truthy(gztime) /\ Len(gztime.s) > 10
        THEN Str(Substring(gztime.s, 5))
        ELSE gztime
  IN IF ~Truthy(contentPrimary) /\ ~Truthy(contentValuation) THEN Null
     ELSE IF throws THEN Rejected
     ELSE Obj([symbol |-> Str(code), name |-> name, currentPrice |-> gsz,
               previousPrice |-> dwjz, changePercentage |-> gszzl,
               lastUpdated |-> finalGzTime, valuationDate |-> finalValuationDate,
               sourceUrl |-> Str(<<"https://fund.eastmoney.com/">> \o code \o <<".html">>)])

\* try { ... } catch (error) { console.error(...); return null; }
CatchNull(v) == IF v = Rejected THEN Null ELSE v

fetchFundData(symbol, resPrimary, resValuation) ==
  CatchNull(fetchFundDataTry(symbol, resPrimary, resValuation))

\* the records valInfo and baseInfo of a fetchFundData call
valInfoOf(resValuation) ==
  IF Truthy(SettledValue(resValuation)) THEN parseJsonpgz(SettledValue(resValuation).s) ELSE Null

baseInfoPresent(resPrimary) == Truthy(SettledValue(resPrimary))

baseInfoOf(resPrimary) ==
  LET contentPrimary == SettledValue(resPrimary)
  IN IF Truthy(contentPrimary)
     THEN Obj([name |-> Str(extractVar(contentPrimary.s, "fS_name")),
               dwjz |-> Str(extractVar(contentPrimary.s, "dwjz")),
               gsz |-> Str(extractVar(contentPrimary.s, "gsz")),
               gszzl |-> Str(extractVar(contentPrimary.s, "gszzl")),
               gztime |-> Str(extractVar(contentPrimary.s, "gztime")),
               jzrq |-> Str(extractVar(contentPrimary.s, "fs_jzrq"))])
     ELSE Null

\* `parseValue` of fetchIndex
parseValue(val) ==
  IF val = Undefined \/ val = Null \/ val = Str(<<"-">>) THEN Num(0, 0) ELSE parseFloat(val)

SecIds == << <<"1", ".", "000001">>, <<"124", ".", "HSTECH">> >>

\* the body of the try block of fetchIndex, given the content fetchWithProxy
\* resolved to: the index, null, or Rejected when a statement throws
fetchIndexTry(secid, content) ==
  LET json == JSONParse(content.s)
      d == Get(json, "data")
  IN IF json = Rejected \/ json.t \in {"null", "undefined"} THEN Rejected
     ELSE IF ~Truthy(d) THEN Null
     ELSE Obj([name |-> Or(Get(d, "f58"),
                           IF \E i \in 1..Len(secid) : secid[i] = "HSTECH"
                           THEN Str(<<"heng", "sheng", "ke", "ji">>)
                           ELSE Str(<<"zhi", "shu">>)),
               symbol |-> Or(Get(d, "f57"), Str(<<secid[3]>>)),
               current |-> parseValue(Get(d, "f43")),
               change |-> parseValue(Get(d, "f169")),
               changePercent |-> parseValue(Get(d, "f170")),
               \* formatFullDateTime of the data time, else of the current time
               lastUpdated |-> IF Truthy(Get(d, "f124"))
                               THEN Str(<<"MM-DD HH:mm:ss of f124">>)
                               ELSE Str(<<"MM-DD HH:mm:ss of now">>)])

\* fetchIndex without its try/catch
fetchIndex_NoCatch(secid, content) ==
  IF ~Truthy(content) THEN Null ELSE fetchIndexTry(secid, content)

fetchIndex(secid, content) ==
  IF ~Truthy(content) THEN Null ELSE CatchNull(fetchIndexTry(secid, content))

\* results.filter(i => i !== null)
RECURSIVE FilterNonNull(_)
FilterNonNull(seq) ==
  IF seq = <<>> THEN <<>>
  ELSE IF Head(seq) = Null THEN FilterNonNull(Tail(seq))
  ELSE <<Head(seq)>> \o FilterNonNull(Tail(seq))

\* fetchMarketIndices, given what the two fetchWithProxy calls resolved to
fetchMarketIndices(content1, content2) ==
  Arr(FilterNonNull(<<fetchIndex(SecIds[1], content1), fetchIndex(SecIds[2], content2)>>))

\* ------------------------------------------------------------------------
\* State
\* ------------------------------------------------------------------------
VARIABLES
  \* one fetchWithProxy call, step by step
  pxValidator,  \* the validator the caller passed
  pxPc,         \* "idle", "fetch" (awaiting fetch), "text" (awaiting response.text()), "done"
  pxI,          \* the strategy of the current loop iteration, 1..NumProxies
  pxTimer,      \* TRUE while the 7 s abort timer of the current attempt is armed
  pxRequests,   \* the strategies requested so far, in the order of the requests
  pxNet,        \* how the network answered each finished attempt, in order
  pxResult,     \* the value the call resolved to, Undefined while it runs
  \* one fetchFundData call
  fdPc,         \* "idle", "settling" (awaiting Promise.allSettled), "done"
  fdSymbol,     \* the argument
  fdPrimary,    \* the settled value of the profile fetch, Undefined while pending
  fdValuation,  \* the settled value of the live-valuation fetch, Undefined while pending
  fdResult,     \* the value the call resolved to, Undefined while it runs
  fdOrder,      \* the two fetches in the order in which they settled
  \* one fetchMarketIndices call
  miPc,         \* "idle", "running" (awaiting Promise.all), "done"
  miContent,    \* per index, what its fetchWithProxy resolved to, Undefined while pending
  miIndex,      \* per index, what its fetchIndex settled to, Undefined while pending
  miResult,     \* the value the call settled to, Undefined while it runs
  \* one call of a response parser
  psPc,         \* "idle", "called", "done"
  psParser,     \* "parseJsonpgz" or "extractVar"
  psContent,    \* the text passed
  psVarName,    \* the variable name passed to extractVar
  psOut         \* the value returned, Undefined before

pxVars == <<pxValidator, pxPc, pxI, pxTimer, pxRequests, pxNet, pxResult>>
fdVars == <<fdPc, fdSymbol, fdPrimary, fdValuation, fdResult, fdOrder>>
miVars == <<miPc, miContent, miIndex, miResult>>
psVars == <<psPc, psParser, psContent, psVarName, psOut>>

pxIdle ==
  /\ pxValidator = "primary"
  /\ pxPc = "idle"
  /\ pxI = 0
  /\ pxTimer = FALSE
  /\ pxRequests = <<>>
  /\ pxNet = <<>>
  /\ pxResult = Undefined

fdIdle ==
  /\ fdPc = "idle"
  /\ fdSymbol = <<>>
  /\ fdPrimary = Undefined
  /\ fdValuation = Undefined
  /\ fdResult = Undefined
  /\ fdOrder = <<>>

miIdle ==
  /\ miPc = "idle"
  /\ miContent = [i \in 1..2 |-> Undefined]
  /\ miIndex = [i \in 1..2 |-> Undefined]
  /\ miResult = Undefined

psIdle ==
  /\ psPc = "idle"
  /\ psParser = "parseJsonpgz"
  /\ psContent = <<>>
  /\ psVarName = "fS_name"
  /\ psOut = Undefined

\* ------------------------------------------------------------------------
\* The response parsers, called on their own
\* ------------------------------------------------------------------------
\* the texts the parsers are called with: the bodies of the two sources, a
\* text without parentheses, texts with several parentheses, and a script
\* that assigns a variable twice
ParserTexts ==
  ValuationBodies \cup PrimaryBodies \cup
  { <<>>, <<"jsonpgz">>, <<"jsonpgz", "(", "{full}">>,
    <<"(", ")">>, <<"(", "{}", ")", ";", ")">>, <<"(", "(", "{}", ")">>,
    <<"var dwjz = '';", "var dwjz = 1.4;">>,
    <<"var dwjz = 1.4;", "var dwjz = ' 1.3 ';">> }

VarNames == {"fS_name", "fS_code", "dwjz", "gsz", "gszzl", "gztime", "fs_jzrq"}

psCall ==
  /\ psPc = "idle"
  /\ psPc' = "called"
  /\ psParser' \in {"parseJsonpgz", "extractVar"}
  /\ psContent' \in ParserTexts
  /\ psVarName' \in VarNames
  /\ UNCHANGED psOut

psParseJsonpgz ==
  /\ psPc = "called"
  /\ psParser = "parseJsonpgz"
  /\ psOut' = parseJsonpgz(psContent)
  /\ psPc' = "done"
  /\ UNCHANGED <<psParser, psContent, psVarName>>

psExtractVar ==
  /\ psPc = "called"
  /\ psParser = "extractVar"
  /\ psOut' = Str(extractVar(psContent, psVarName))
  /\ psPc' = "done"
  /\ UNCHANGED <<psParser, psContent, psVarName>>

\* ------------------------------------------------------------------------
\* fetchWithProxy, one request at a time
\* ------------------------------------------------------------------------
\* the bodies the network delivers to the call followed step by step
NetBodies ==
  { <<>>, <<"<html>">>, <<"{data}">>,
    <<"jsonpgz", "(", "{full}", ")", ";">>,
    <<"var fS_code = '000001';">>,
    Envelope(<<"jsonpgz", "(", "{full}", ")", ";">>) }

\* the loop iteration for strategy i: arm the timer and issue the request
pxIterate(i) ==
  /\ pxI' = i
  /\ pxTimer' = TRUE
  /\ pxRequests' = Append(pxRequests, proxies[i])
  /\ pxPc' = "fetch"
  /\ pxResult' = pxResult

\* a loop that stops one strategy early
pxLoops_OffByOne(i) == i + 1 < NumProxies

\* `for (let i = 0; i < proxies.length; i++)`: whether another iteration runs
pxLoops(i) == i < NumProxies

\* the attempt ended with outcome o and without a return: the next
\* iteration, or `return null` after the last strategy
pxContinue(o) ==
  /\ pxNet' = Append(pxNet, o)
  /\ IF pxLoops(pxI)
     THEN pxIterate(pxI + 1)
     ELSE /\ pxPc' = "done"
          /\ pxResult' = Null
          /\ pxTimer' = FALSE
          /\ UNCHANGED <<pxI, pxRequests>>
  /\ UNCHANGED pxValidator

\* the call: the first iteration runs up to its await
pxCall ==
  /\ pxPc = "idle"
  /\ \E v \in Validators : pxValidator' = v
  /\ pxIterate(1)
  /\ UNCHANGED pxNet

\* fetch() rejects with a network error; the catch clears the timer
pxFetchError ==
  /\ pxPc = "fetch"
  /\ pxContinue(Outcome("error", <<>>))

\* the timer fires and aborts the request; fetch() rejects with an AbortError
pxTimeout ==
  /\ pxPc = "fetch"
  /\ pxTimer
  /\ pxContinue(Outcome("timeout", <<>>))

\* the response headers arrive: the timer is cleared; an OK response goes on
\* to await its body, any other status ends the attempt
pxResponse ==
  /\ pxPc = "fetch"
  /\ \E ok \in BOOLEAN :
       IF ok
       THEN /\ pxPc' = "text"
            /\ pxTimer' = FALSE
            /\ UNCHANGED <<pxValidator, pxI, pxRequests, pxNet, pxResult>>
       ELSE pxContinue(Outcome("status", <<>>))

\* the body arrives: `if (text && validator(text)) return text`
pxText ==
  /\ pxPc = "text"
  /\ \E body \in NetBodies :
       IF AttemptReturns(Outcome("body", body), pxValidator)
       THEN /\ pxPc' = "done"
            /\ pxResult' = Str(body)
            /\ pxNet' = Append(pxNet, Outcome("body", body))
            /\ UNCHANGED <<pxValidator, pxI, pxTimer, pxRequests>>
       ELSE pxContinue(Outcome("body", body))

\* response.text() rejects (the connection breaks while the body is read)
pxTextError ==
  /\ pxPc = "text"
  /\ pxContinue(Outcome("textfail", <<>>))

\* ------------------------------------------------------------------------
\* fetchFundData: the two fetches settle in any order, then the merge
\* ------------------------------------------------------------------------
\* what a request for the profile script, for the live valuation and for an
\* index quote can be answered with
Answers(bodies) ==
  {Outcome(k, <<>>) : k \in Failures} \cup
  {Outcome("body", b) : b \in bodies \cup OtherBodies \cup {<<"{data">>}}

\* every way the network can answer the four attempts of one call
NetScripts(bodies) == [1..NumProxies -> Answers(bodies)]

\* the values fetchWithProxy can resolve to, per caller
PrimaryResults == {fetchWithProxy(net, "primary") : net \in NetScripts(PrimaryBodies)}
ValuationResults == {fetchWithProxy(net, "valuation") : net \in NetScripts(ValuationBodies)}
IndexResults == {fetchWithProxy(net, "index") : net \in NetScripts(IndexBodies)}

\* the symbols fetchFundData is called with
Sym(k) == <<"0", "0", "0", "0", "0", Digits[k + 1]>>
SymA == Sym(1)
SymB == <<"0", "0", "7", "0", "0">>
\* a symbol the 5-6 digit pattern rejects
SymBad == <<"1", "2", "a", "4", "5">>
FundSymbols == {SymA, SymB, SymBad}

\* the fund code in the two URLs fetchFundData requests
fdCode == padStart(fdSymbol, 6)
\* fetchFundData has handed its two requests to fetchWithProxy
fdRequested == fdPc # "idle"

fdCall ==
  /\ fdPc = "idle"
  /\ \E symbol \in FundSymbols : fdSymbol' = symbol
  /\ fdPc' = "settling"
  /\ UNCHANGED <<fdPrimary, fdValuation, fdResult, fdOrder>>

fdSettlePrimary ==
  /\ fdPc = "settling"
  /\ fdPrimary = Undefined
  /\ \E res \in PrimaryResults : fdPrimary' = res
  /\ fdOrder' = Append(fdOrder, "primary")
  /\ UNCHANGED <<fdPc, fdSymbol, fdValuation, fdResult>>

fdSettleValuation ==
  /\ fdPc = "settling"
  /\ fdValuation = Undefined
  /\ \E res \in ValuationResults : fdValuation' = res
  /\ fdOrder' = Append(fdOrder, "valuation")
  /\ UNCHANGED <<fdPc, fdSymbol, fdPrimary, fdResult>>

\* an array of the two results in the order in which they settled
AllSettled_ByCompletion(order, primary, valuation) ==
  [i \in 1..2 |-> IF order[i] = "primary" THEN primary ELSE valuation]

\* `const [resPrimary, resValuation] = await Promise.allSettled([...])`: the
\* results in the order of the promises passed
AllSettled(order, primary, valuation) == <<primary, valuation>>

\* Promise.allSettled resolves and the rest of fetchFundData runs
fdMerge ==
  /\ fdPc = "settling"
  /\ fdPrimary # Undefined
  /\ fdValuation # Undefined
  /\ LET settled == AllSettled(fdOrder, fdPrimary, fdValuation)
     IN fdResult' = fetchFundData(fdSymbol, settled[1], settled[2])
  /\ fdPc' = "done"
  /\ UNCHANGED <<fdSymbol, fdPrimary, fdValuation, fdOrder>>

\* ------------------------------------------------------------------------
\* fetchMarketIndices: the two fetchIndex calls run side by side
\* ------------------------------------------------------------------------
miCall ==
  /\ miPc = "idle"
  /\ miPc' = "running"
  /\ UNCHANGED <<miContent, miIndex, miResult>>

\* `const content = await fetchWithProxy(targetUrl, ...)` of one fetchIndex
miContentArrives(i) ==
  /\ miPc = "running"
  /\ miContent[i] = Undefined
  /\ \E content \in IndexResults : miContent' = [miContent EXCEPT ![i] = content]
  /\ UNCHANGED <<miPc, miIndex, miResult>>

\* the rest of one fetchIndex: it returns an index or null, or rejects
miIndexSettles(i) ==
  /\ miPc = "running"
  /\ miContent[i] # Undefined
  /\ miIndex[i] = Undefined
  /\ miIndex' = [miIndex EXCEPT ![i] = fetchIndex(SecIds[i], miContent[i])]
  /\ UNCHANGED <<miPc, miContent, miResult>>

\* Promise.all settles: it rejects when one of the two rejected, else the
\* results are filtered and returned
miReturn ==
  /\ miPc = "running"
  /\ \A i \in 1..2 : miIndex[i] # Undefined
  /\ miResult' = IF \E i \in 1..2 : miIndex[i] = Rejected THEN Rejected
                 ELSE Arr(FilterNonNull(<<miIndex[1], miIndex[2]>>))
  /\ miPc' = "done"
  /\ UNCHANGED <<miContent, miIndex>>

\* ------------------------------------------------------------------------
\* The App component: watchlist store and batch update scheduler
\* ------------------------------------------------------------------------
VARIABLES
  variant,          \* "App" (src/App.tsx) or "part_000" (src/unnamed/part_000)
  mounted,          \* TRUE once the mount effects have run
  portfolio,        \* the watchlist, a sequence of tickers
  marketData,       \* the valuation mapping, a function on the symbols it has
  marketIndices,    \* the displayed market-index list (part_000)
  isRefreshing,
  isModalOpen,
  isSelectionMode,
  selectedIds,
  backgroundTasks,  \* the in-flight counter
  pendingDelete,
  nextId,           \* the number of ids drawn from Math.random so far
  runs,             \* the runBatchUpdate / refreshAll executions in progress
  intervals,        \* the armed interval timers with the closures they call
  loads,            \* the FileReader loads of handleImport not yet delivered
  alerting,         \* TRUE while an alert() of handleImport is on the screen
  polls,            \* the refreshMarketIndices calls of the 30 s timer in progress
  unhandled,        \* TRUE once a promise nobody awaits has rejected
  \* the stores the state initializers read
  lsPortfolio,      \* localStorage 'fund_portfolio': a text, or Null when missing
  lsMarketData,     \* localStorage 'fund_market_data'
  lsSortOrder,      \* localStorage 'fund_sort_order'
  ldPc,             \* "idle", "stored" (before the first render), "loaded"
  ldPortfolio,      \* the initial value of the portfolio state
  ldMarketData,     \* the initial value of the marketData state
  ldSortOrder,      \* the initial value of the sortOrder state
  exported          \* the file handleExport wrote last, Null when there is none

uiVars ==
  <<variant, mounted, portfolio, marketData, marketIndices, isRefreshing,
    isModalOpen, isSelectionMode, selectedIds, backgroundTasks, pendingDelete,
    nextId, runs, intervals, polls, unhandled, loads, alerting>>

lsVars ==
  <<lsPortfolio, lsMarketData, lsSortOrder, ldPc, ldPortfolio, ldMarketData,
    ldSortOrder, exported>>

appVars == <<uiVars, lsVars>>

vars == <<pxVars, fdVars, miVars, psVars, appVars>>

\* bounds of the model
MaxTickers == 2
MaxIds == 2
MaxRuns == 2
MaxPolls == 1

Variants == {"App", "part_000"}
\* `Math.min(5, targets.length)`
WorkerCap == 5

Min(a, b) == IF a < b THEN a ELSE b
Max(a, b) == IF a > b THEN a ELSE b

Ticker(id, symbol, name) == [id |-> id, symbol |-> symbol, name |-> name]
\* Math.random().toString(36).substr(2, 9): the k-th id drawn
RandomIds == <<"r1", "r2", "r3", "r4", "r5", "r6", "r7", "r8", "r9">>

SymbolsOf(p) == [i \in 1..Len(p) |-> p[i].symbol]
IdsOf(p) == {p[i].id : i \in 1..Len(p)}

EmptyMap == [k \in {} |-> Null]
\* { ...prev, [key]: data }
Put(map, key, data) == [k \in DOMAIN map \cup {key} |-> IF k = key THEN data ELSE map[k]]
\* delete newData[key], for every key of keys
Delete(map, keys) == [k \in DOMAIN map \ keys |-> map[k]]

NoRun == [kind |-> "none"]
\* a worker whose loop has ended
Done == <<>>
Busy(run) == {w \in DOMAIN run.workers : run.workers[w] # Done}
ActiveRuns == {r \in 1..MaxRuns : runs[r] # NoRun}
\* the fetchFundData calls in flight
InFlight(r) == IF runs[r] = NoRun THEN 0 ELSE Cardinality(Busy(runs[r]))

\* the React state as one record; `overflow` marks a step the bounds of the
\* model do not allow
S ==
  [portfolio |-> portfolio, marketData |-> marketData, marketIndices |-> marketIndices,
   isRefreshing |-> isRefreshing, isModalOpen |-> isModalOpen,
   isSelectionMode |-> isSelectionMode, selectedIds |-> selectedIds,
   backgroundTasks |-> backgroundTasks, pendingDelete |-> pendingDelete,
   nextId |-> nextId, runs |-> runs, intervals |-> intervals, polls |-> polls,
   unhandled |-> unhandled, loads |-> loads, alerting |-> alerting,
   overflow |-> FALSE]

Commit(s) ==
  /\ ~s.overflow
  /\ portfolio' = s.portfolio
  /\ marketData' = s.marketData
  /\ marketIndices' = s.marketIndices
  /\ isRefreshing' = s.isRefreshing
  /\ isModalOpen' = s.isModalOpen
  /\ isSelectionMode' = s.isSelectionMode
  /\ selectedIds' = s.selectedIds
  /\ backgroundTasks' = s.backgroundTasks
  /\ pendingDelete' = s.pendingDelete
  /\ nextId' = s.nextId
  /\ runs' = s.runs
  /\ intervals' = s.intervals
  /\ polls' = s.polls
  /\ unhandled' = s.unhandled
  /\ loads' = s.loads
  /\ alerting' = s.alerting
  /\ UNCHANGED <<variant, pxVars, fdVars, miVars, psVars, lsVars>>

\* updateSingleFund up to its await: App.tsx counts the fetch it starts
updateSingleFundBegin(s) ==
  IF variant = "App" THEN [s EXCEPT !.backgroundTasks = @ + 1] ELSE s

\* an updateSingleFund that decrements the counter only after a successful fetch
updateSingleFundEnd_NoFinally(s, symbol, data) ==
  IF Truthy(data) /\ data # Rejected
  THEN [s EXCEPT !.marketData = Put(@, symbol, data),
                 !.backgroundTasks = Max(0, @ - 1)]
  ELSE s

\* an updateSingleFund that names every ticker of the symbol anew
updateSingleFundEnd_Renames(s, symbol, data) ==
  LET named == [i \in 1..Len(s.portfolio) |->
                  IF s.portfolio[i].symbol = symbol
                  THEN [s.portfolio[i] EXCEPT !.name = data.f.name.s]
                  ELSE s.portfolio[i]]
      s1 == IF Truthy(data) /\ data # Rejected
            THEN [s EXCEPT !.marketData = Put(@, symbol, data), !.portfolio = named]
            ELSE s
  IN [s1 EXCEPT !.backgroundTasks = Max(0, @ - 1)]

\* updateSingleFund after its await, given what fetchFundData resolved to
updateSingleFundEnd(s, symbol, data) ==
  LET named == [i \in 1..Len(s.portfolio) |->
                  IF s.portfolio[i].symbol = symbol /\ s.portfolio[i].name = <<>>
                  THEN [s.portfolio[i] EXCEPT !.name = data.f.name.s]
                  ELSE s.portfolio[i]]
      s1 == IF Truthy(data) /\ data # Rejected
            THEN [s EXCEPT !.marketData = Put(@, symbol, data), !.portfolio = named]
            ELSE s
  IN [s1 EXCEPT !.backgroundTasks = Max(0, @ - 1)]

\* one turn of a worker's loop: `while (queue.length > 0) { const item =
\* queue.shift(); if (item) await updateSingleFund(item.symbol); }`
Pull(s, r, w) ==
  LET queue == s.runs[r].queue
  IN IF Len(queue) > 0
     THEN updateSingleFundBegin(
            [s EXCEPT !.runs[r].queue = Tail(queue), !.runs[r].workers[w] = Head(queue),
                      !.runs[r].pulled = Append(@, Head(queue))])
     ELSE [s EXCEPT !.runs[r].workers[w] = Done]

RECURSIVE StartWorkers(_, _, _, _)
StartWorkers(s, r, w, limit) ==
  IF w > limit THEN s ELSE StartWorkers(Pull(s, r, w), r, w + 1, limit)

\* a pool with one worker per target
Limit_NoCap(targets) == Len(targets)

\* the number of workers of a batch
Limit(targets) == Min(WorkerCap, Len(targets))

\* a batch over targets starts in a free slot; `index` when a
\* refreshMarketIndices call is awaited together with it
Spawn(s, kind, targets, index) ==
  LET free == {r \in 1..MaxRuns : s.runs[r] = NoRun}
      r == CHOOSE x \in free : \A y \in free : x <= y
      limit == Limit(targets)
      s1 == [s EXCEPT
               !.runs[r] = [kind |-> kind, size |-> Len(targets), queue |-> targets,
                            targets |-> targets, pulled |-> <<>>,
                            workers |-> [w \in 1..limit |-> Done],
                            index |-> index, rejected |-> FALSE],
               !.backgroundTasks =
                  IF variant = "part_000" THEN @ + Len(targets) ELSE @]
  IN IF free = {} THEN [s EXCEPT !.overflow = TRUE]
     ELSE StartWorkers(s1, r, 1, limit)

runBatchUpdate(s, targets) ==
  IF Len(targets) = 0 THEN s ELSE Spawn(s, "batch", targets, FALSE)

\* the closure a render gives refreshAll
Closure(s) == [portfolio |-> s.portfolio, isRefreshing |-> s.isRefreshing]

\* refreshAll, as the closure c of some render, up to its await
refreshAll(s, c) ==
  IF variant = "App"
  THEN IF Len(c.portfolio) = 0 \/ c.isRefreshing THEN s
       ELSE Spawn([s EXCEPT !.isRefreshing = TRUE], "refresh", SymbolsOf(c.portfolio), FALSE)
  ELSE IF c.isRefreshing THEN s
       ELSE Spawn([s EXCEPT !.isRefreshing = TRUE], "refresh", SymbolsOf(c.portfolio), TRUE)

\* the promise refreshAll (or the caller of runBatchUpdate) awaits settles
\* when every worker has ended and the index refresh has returned; refreshAll
\* then clears the flag, unless the promise rejected
Settle(s, r) ==
  LET run == s.runs[r]
  IN IF Busy(run) = {} /\ ~run.index
     THEN [s EXCEPT !.runs[r] = NoRun,
                    !.isRefreshing =
                       IF run.kind = "refresh" /\ ~run.rejected THEN FALSE ELSE @]
     ELSE s

\* the effect on [portfolio.length]: the cleanup of the previous run of the
\* effect, refreshAll(), and the interval timers
\* an effect that returns no cleanup
Cleanup_None(s) == s

\* the function the effect returned: clearInterval of the timers it armed
Cleanup(s) == [s EXCEPT !.intervals = <<>>]

Effect(s) ==
  LET c == Closure(s)
      fund == [kind |-> "fund", portfolio |-> c.portfolio, isRefreshing |-> c.isRefreshing]
      index == [kind |-> "index", portfolio |-> <<>>, isRefreshing |-> FALSE]
      s1 == refreshAll(Cleanup(s), c)
  IN [s1 EXCEPT !.intervals =
        @ \o (IF variant = "App" THEN <<fund>> ELSE <<fund, index>>)]

\* React renders after a handler; the effect runs when the length changed
AfterRender(s0, s1) ==
  IF Len(s1.portfolio) # Len(s0.portfolio) THEN Effect(s1) ELSE s1

\* the state initializers: a stored value, or the default when the key is
\* missing or JSON.parse throws
initPortfolio(saved) ==
  IF Truthy(saved)
  THEN LET v == JSONParse(saved.s) IN IF v = Rejected THEN Arr(<<>>) ELSE v
  ELSE Arr(<<>>)

initMarketData(saved) ==
  IF Truthy(saved)
  THEN LET v == JSONParse(saved.s) IN IF v = Rejected THEN Obj(<<>>) ELSE v
  ELSE Obj(<<>>)

\* App.tsx: `(getItem(...) as SortOrder) || 'desc'`; part_000 accepts 'asc'
\* and 'desc' only
initSortOrder(v, saved) ==
  IF v = "App" THEN Or(saved, Str(<<"desc">>))
  ELSE IF saved \in {Str(<<"asc">>), Str(<<"desc">>)} THEN saved
  ELSE Str(<<"desc">>)

\* what localStorage can hold under the three keys: nothing (null), or a text
StoredTexts ==
  {Null, Str(<<>>), Str(<<"{bad">>), Str(<<"null">>), Str(<<"{}">>),
   Str(<<"[]">>), Str(<<"[ticker]">>)}
StoredSortOrders ==
  {Null, Str(<<>>), Str(<<"asc">>), Str(<<"desc">>), Str(<<"none">>), Str(<<"up">>)}

\* the storage is not looked at
lsIdle ==
  /\ lsPortfolio = Null
  /\ lsMarketData = Null
  /\ lsSortOrder = Null
  /\ ldPc = "idle"
  /\ ldPortfolio = Undefined
  /\ ldMarketData = Undefined
  /\ ldSortOrder = Undefined
  /\ exported = Null

\* the page is opened over some content of the storage
lsStored ==
  /\ lsPortfolio \in StoredTexts
  /\ lsMarketData \in StoredTexts
  /\ lsSortOrder \in StoredSortOrders
  /\ ldPc = "stored"
  /\ ldPortfolio = Undefined
  /\ ldMarketData = Undefined
  /\ ldSortOrder = Undefined
  /\ exported = Null

\* the first render runs the three state initializers
LoadState ==
  /\ ldPc = "stored"
  /\ ldPc' = "loaded"
  /\ ldPortfolio' = initPortfolio(lsPortfolio)
  /\ ldMarketData' = initMarketData(lsMarketData)
  /\ ldSortOrder' = initSortOrder(variant, lsSortOrder)
  /\ UNCHANGED <<lsPortfolio, lsMarketData, lsSortOrder, exported>>

\* the state after the state initializers, for a stored watchlist
AppFresh(stored) ==
  /\ variant \in Variants
  /\ mounted = FALSE
  /\ portfolio = stored
  /\ marketData = EmptyMap
  /\ marketIndices = <<>>
  /\ isRefreshing = FALSE
  /\ isModalOpen = FALSE
  /\ isSelectionMode = FALSE
  /\ selectedIds = {}
  /\ backgroundTasks = 0
  /\ pendingDelete = Null
  /\ nextId = Len(stored)
  /\ runs = [r \in 1..MaxRuns |-> NoRun]
  /\ intervals = <<>>
  /\ polls = 0
  /\ unhandled = FALSE
  /\ loads = <<>>
  /\ alerting = FALSE

AppInitWith(stored) == lsIdle /\ AppFresh(stored)

\* empty stores
AppInit == AppInitWith(<<>>)

\* the first render commits and the effects run
Mount ==
  /\ ~mounted
  /\ mounted' = TRUE
  /\ Commit(Effect(S))

\* the component is torn down: React runs the cleanup of the effect
Unmount ==
  /\ mounted
  /\ mounted' = FALSE
  /\ Commit(Cleanup(S))

\* everything fetchFundData and fetchMarketIndices can resolve to
FundDataResults ==
  {fetchFundData(symbol, p, v) :
     symbol \in FundSymbols, p \in PrimaryResults, v \in ValuationResults}
IndexDataResults ==
  {fetchMarketIndices(c1, c2) : c1 \in IndexResults, c2 \in IndexResults}

\* the symbols of the runs of the App
AppSymbols == {SymA, SymB}

\* what fetchFundData can resolve to in the runs of the App: the upstream
\* profile endpoint is down, the live-valuation endpoint fails, answers with
\* a full record or with numbers where strings are expected
AppPrimaryResults == {Null}
AppValuationResults ==
  {Null, Str(<<"jsonpgz", "(", "{full}", ")", ";">>),
   Str(<<"jsonpgz", "(", "{numeric}", ")", ";">>)}
AppFundData ==
  [symbol \in AppSymbols |->
     {fetchFundData(symbol, p, v) : p \in AppPrimaryResults, v \in AppValuationResults}]

\* a fetchFundData call of worker w of run r returns one of results[symbol]:
\* updateSingleFund finishes and the worker's loop goes on
FetchDone(r, w, results) ==
  /\ mounted
  /\ runs[r] # NoRun
  /\ w \in Busy(runs[r])
  /\ \E data \in results[runs[r].workers[w]] :
       LET symbol == runs[r].workers[w]
           s1 == updateSingleFundEnd(S, symbol, data)
           s2 == IF data = Rejected
                 THEN [s1 EXCEPT !.runs[r].workers[w] = Done,
                                 !.runs[r].rejected = TRUE,
                                 !.unhandled = TRUE]
                 ELSE Pull(s1, r, w)
       IN Commit(Settle(s2, r))
  /\ UNCHANGED mounted

AppFetchDone ==
  \E r \in 1..MaxRuns, w \in 1..WorkerCap :
    FetchDone(r, w, AppFundData)

\* what fetchMarketIndices can resolve to in the runs of the App: the quote
\* endpoint fails or answers without a data object
AppIndexResults == {Null, Str(<<"{data:null}">>)}
AppIndexData ==
  {fetchMarketIndices(content1, content2) :
     content1 \in AppIndexResults, content2 \in AppIndexResults}

\* refreshMarketIndices after its await: `if (data.length > 0)
\* setMarketIndices(data)`, inside try / catch
refreshMarketIndices(s, data) ==
  IF data # Rejected /\ Len(data.a) > 0 THEN [s EXCEPT !.marketIndices = data.a] ELSE s

\* refreshMarketIndices, followed through its fetchMarketIndices call: the
\* call has returned (or rejected) and the poll ends
miApply ==
  /\ variant = "part_000"
  /\ miPc = "done"
  /\ marketIndices' = refreshMarketIndices(S, miResult).marketIndices
  /\ miPc' = "idle"
  /\ miContent' = [i \in 1..2 |-> Undefined]
  /\ miIndex' = [i \in 1..2 |-> Undefined]
  /\ miResult' = Undefined
  /\ UNCHANGED <<variant, mounted, portfolio, marketData, isRefreshing, isModalOpen,
                 isSelectionMode, selectedIds, backgroundTasks, pendingDelete,
                 nextId, runs, intervals, polls, unhandled, loads, alerting,
                 lsVars, pxVars, fdVars, psVars>>

\* the refreshMarketIndices call of the refreshAll execution r returns
IndexDone(r, results) ==
  /\ mounted
  /\ runs[r] # NoRun
  /\ runs[r].index
  /\ \E data \in results :
       LET s1 == refreshMarketIndices(S, data)
       IN Commit(Settle([s1 EXCEPT !.runs[r].index = FALSE], r))
  /\ UNCHANGED mounted

AppIndexDone == \E r \in 1..MaxRuns : IndexDone(r, AppIndexData)

\* no dialog covers the page
UIFree == mounted /\ ~isModalOpen /\ pendingDelete = Null

\* the 120 s timer calls the refreshAll of the render its effect ran in
FundTimerFire ==
  /\ mounted
  /\ \E i \in 1..Len(intervals) :
       /\ intervals[i].kind = "fund"
       /\ Commit(refreshAll(S, intervals[i]))
  /\ UNCHANGED mounted

\* the 30 s timer calls refreshMarketIndices
IndexTimerFire ==
  /\ mounted
  /\ \E i \in 1..Len(intervals) : intervals[i].kind = "index"
  /\ polls < MaxPolls
  /\ Commit([S EXCEPT !.polls = @ + 1])
  /\ UNCHANGED mounted

PollDone(results) ==
  /\ polls > 0
  /\ \E data \in results :
       Commit([refreshMarketIndices(S, data) EXCEPT !.polls = @ - 1])
  /\ UNCHANGED mounted

\* the refresh button: disabled={isRefreshing || portfolio.length === 0} in
\* App.tsx, disabled={isRefreshing} in part_000
ClickRefresh ==
  /\ UIFree
  /\ ~isSelectionMode
  /\ ~isRefreshing
  /\ variant = "App" => Len(portfolio) > 0
  /\ Commit(refreshAll(S, Closure(S)))
  /\ UNCHANGED mounted

OpenModal ==
  /\ UIFree
  /\ ~isSelectionMode
  /\ Commit([S EXCEPT !.isModalOpen = TRUE])
  /\ UNCHANGED mounted

CloseModal ==
  /\ mounted
  /\ isModalOpen
  /\ Commit([S EXCEPT !.isModalOpen = FALSE])
  /\ UNCHANGED mounted

\* the words a user types into the add dialog, already split at blanks and
\* commas
BadCode == <<"1", "2", "a", "4", "5">>
AddInputs == { <<SymA>>, <<SymB>>, <<SymA, SymB>>, <<BadCode>> }

\* a dialog that passes on every word typed
handleSubmit_NoFilter(words) == words

\* handleSubmit of AddTickerModal: the codes passed to onAdd
handleSubmit(words) == SelectSeq(words, IsSymbol)

\* the tickers made of the symbols not in `current`, with fresh ids
RECURSIVE NewItems(_, _, _)
NewItems(symbols, current, drawn) ==
  IF symbols = <<>> THEN <<>>
  ELSE IF Head(symbols) \in current THEN NewItems(Tail(symbols), current, drawn)
  ELSE <<Ticker(RandomIds[drawn + 1], Head(symbols), <<>>)>>
         \o NewItems(Tail(symbols), current, drawn + 1)

\* addTickers of App.tsx, the onAdd handler of part_000
addTickers(s, symbols) ==
  LET validSymbols == IF variant = "App"
                      THEN SelectSeq([i \in 1..Len(symbols) |-> Trim(symbols[i])], IsSymbol)
                      ELSE symbols
      currentSymbols == {s.portfolio[i].symbol : i \in 1..Len(s.portfolio)}
      newItems == NewItems(validSymbols, currentSymbols, s.nextId)
      s1 == [s EXCEPT !.portfolio = @ \o newItems,
                      !.nextId = @ + Len(newItems),
                      !.isModalOpen = FALSE]
  IN IF Len(newItems) > 0
     THEN runBatchUpdate(s1, SymbolsOf(newItems))
     ELSE [s EXCEPT !.isModalOpen = FALSE]

\* the dialog is submitted with one of the inputs, while the watchlist stays
\* within maxTickers tickers and maxIds ids drawn
SubmitAddOf(inputs, maxTickers, maxIds) ==
  /\ mounted
  /\ isModalOpen
  /\ \E words \in inputs :
       LET codes == handleSubmit(words)
           s1 == addTickers(S, codes)
       IN /\ Len(codes) > 0
          /\ Len(s1.portfolio) <= maxTickers
          /\ s1.nextId <= maxIds
          /\ Commit(AfterRender(S, s1))
  /\ UNCHANGED mounted

SubmitAddWithin(maxTickers, maxIds) == SubmitAddOf(AddInputs, maxTickers, maxIds)

SubmitAdd == SubmitAddWithin(MaxTickers, MaxIds)

EnterSelection ==
  /\ UIFree
  /\ ~isSelectionMode
  /\ Commit([S EXCEPT !.isSelectionMode = TRUE])
  /\ UNCHANGED mounted

\* the "done" button of selection mode
ExitSelection ==
  /\ UIFree
  /\ isSelectionMode
  /\ Commit(IF variant = "App"
            THEN [S EXCEPT !.selectedIds = {}, !.isSelectionMode = FALSE]
            ELSE [S EXCEPT !.isSelectionMode = FALSE])
  /\ UNCHANGED mounted

\* a click on a card in selection mode
toggleSelect ==
  /\ UIFree
  /\ isSelectionMode
  /\ \E id \in IdsOf(portfolio) :
       Commit([S EXCEPT !.selectedIds = IF id \in @ THEN @ \ {id} ELSE @ \cup {id}])
  /\ UNCHANGED mounted

toggleSelectAll ==
  /\ UIFree
  /\ isSelectionMode
  /\ Commit([S EXCEPT !.selectedIds =
               IF variant = "App" /\ Cardinality(@) = Len(portfolio)
               THEN {} ELSE IdsOf(portfolio)])
  /\ UNCHANGED mounted

\* the trash button of a card
handleRemoveClick ==
  /\ UIFree
  /\ ~isSelectionMode
  /\ \E i \in 1..Len(portfolio) :
       LET t == portfolio[i]
       IN Commit([S EXCEPT !.pendingDelete =
                    [id |-> t.id, symbol |-> t.symbol, bulk |-> FALSE,
                     name |-> IF variant = "App" /\ t.name = <<>> THEN t.symbol ELSE t.name]])
  /\ UNCHANGED mounted

handleBulkRemoveClick ==
  /\ UIFree
  /\ isSelectionMode
  /\ selectedIds # {}
  /\ Commit([S EXCEPT !.pendingDelete = [bulk |-> TRUE]])
  /\ UNCHANGED mounted

\* confirmDelete of App.tsx, the onConfirm handler of part_000
confirmDelete(s) ==
  LET pd == s.pendingDelete
      Unselected(t) == t.id \notin s.selectedIds
      Other(t) == t.id # pd.id
      removed == {s.portfolio[i].symbol : i \in {j \in 1..Len(s.portfolio) :
                                                   s.portfolio[j].id \in s.selectedIds}}
      s1 == IF pd.bulk
            THEN [s EXCEPT !.portfolio = SelectSeq(@, Unselected),
                           !.marketData = IF variant = "App" THEN Delete(@, removed) ELSE @,
                           !.selectedIds = {},
                           !.isSelectionMode = FALSE]
            ELSE [s EXCEPT !.portfolio = SelectSeq(@, Other),
                           !.marketData = IF variant = "App" THEN Delete(@, {pd.symbol}) ELSE @]
  IN [s1 EXCEPT !.pendingDelete = Null]

ConfirmDelete ==
  /\ mounted
  /\ pendingDelete # Null
  /\ Commit(AfterRender(S, confirmDelete(S)))
  /\ UNCHANGED mounted

cancelDelete ==
  /\ mounted
  /\ pendingDelete # Null
  /\ Commit([S EXCEPT !.pendingDelete = Null])
  /\ UNCHANGED mounted

\* ------------------------------------------------------------------------
\* handleImport
\* ------------------------------------------------------------------------
MaxLoads == 1

\* String(v), as RegExp.prototype.test applies it to its argument
RECURSIVE DigitsOf(_)
DigitsOf(n) ==
  IF n < 10 THEN <<Digits[n + 1]>> ELSE DigitsOf(n \div 10) \o <<Digits[(n % 10) + 1]>>

StringOf(v) ==
  CASE v.t = "str" -> v.s
    [] v.t = "num" /\ v.d = 0 /\ v.m >= 0 -> DigitsOf(v.m)
    [] v.t = "arr" /\ Len(v.a) = 1 /\ v.a[1].t = "str" -> v.a[1].s
    [] OTHER -> <<"[object]">>

\* /^\d{5,6}$/.test(item.symbol)
RegexTest(v) == IsSymbol(StringOf(v))

\* a ticker's symbol as the model stores it: a string by its characters, a
\* number by its decimal digits behind the mark "num" (a Set and an object
\* key tell the number 161725 from the string '161725'), an array of one
\* string by that string behind the mark "arr"
SymbolKey(v) ==
  CASE v.t = "str" -> v.s
    [] v.t = "arr" -> <<"arr">> \o StringOf(v)
    [] OTHER -> <<"num">> \o StringOf(v)
IsNumberKey(symbol) == symbol # <<>> /\ Head(symbol) = "num"
IsArrayKey(symbol) == symbol # <<>> /\ Head(symbol) = "arr"

\* the documents a user imports, as JSON.parse returns them (Rejected: a
\* SyntaxError)
ItemA == Obj([symbol |-> Str(SymA)])
ItemB == Obj([symbol |-> Str(SymB), id |-> Str(<<"x1">>), name |-> Str(<<"B">>)])
ItemBad == Obj([symbol |-> Str(BadCode), name |-> Str(<<"B">>)])
ItemNum == Obj([symbol |-> Num(161725, 0)])
ItemNoSymbol == Obj([name |-> Str(<<"B">>)])
ImportDocs ==
  { Rejected, Null, ItemA,
    Arr(<<ItemA>>), Arr(<<ItemA, ItemA>>), Arr(<<ItemB, ItemBad, ItemNoSymbol>>),
    Arr(<<ItemNum>>), Arr(<<ItemA, Null>>), Arr(<<Num(5, 0), Str(SymA)>>) }

\* the loop over importedData: the new tickers, or `threw` when reading
\* item.symbol of a null element throws
RECURSIVE importNewItems(_, _, _)
importNewItems(items, existingSymbols, drawn) ==
  IF items = <<>> THEN [threw |-> FALSE, items |-> <<>>, drawn |-> drawn]
  ELSE IF Head(items) = Null THEN [threw |-> TRUE, items |-> <<>>, drawn |-> drawn]
  ELSE LET item == Head(items)
           symbol == Get(item, "symbol")
           \* Set.has compares objects by identity, and JSON.parse makes the
           \* array anew
           take == /\ Truthy(symbol)
                   /\ RegexTest(symbol)
                   /\ symbol.t = "arr" \/ SymbolKey(symbol) \notin existingSymbols
           random == ~Truthy(Get(item, "id"))
           id == IF random THEN RandomIds[drawn + 1] ELSE Get(item, "id").s[1]
           name == IF Truthy(Get(item, "name")) THEN Get(item, "name").s ELSE <<>>
           rest == importNewItems(Tail(items), existingSymbols,
                                  IF take /\ random THEN drawn + 1 ELSE drawn)
       IN IF take
          THEN [rest EXCEPT !.items = <<Ticker(id, SymbolKey(symbol), name)>> \o @]
          ELSE rest

\* reader.onload of handleImport, with the portfolio of the render in which
\* the file was chosen
importLoaded(s, doc, closure) ==
  LET existingSymbols == {closure[i].symbol : i \in 1..Len(closure)}
      r == importNewItems(doc.a, existingSymbols, s.nextId)
      s1 == [s EXCEPT !.portfolio = @ \o r.items, !.nextId = r.drawn]
  IN IF doc = Rejected \/ doc.t # "arr" THEN [s EXCEPT !.alerting = TRUE]
     ELSE IF r.threw THEN [s EXCEPT !.alerting = TRUE]
     ELSE IF Len(r.items) > 0 THEN runBatchUpdate(s1, SymbolsOf(r.items))
     ELSE s

\* handleImport: the user picks a file and the FileReader starts reading it
ChooseFile ==
  /\ UIFree
  /\ ~alerting
  /\ Len(loads) < MaxLoads
  /\ \E doc \in ImportDocs :
       Commit([S EXCEPT !.loads = Append(@, [doc |-> doc, portfolio |-> portfolio])])
  /\ UNCHANGED mounted

\* the FileReader delivers the text: reader.onload runs
FileLoaded ==
  /\ mounted
  /\ ~alerting
  /\ loads # <<>>
  /\ LET s0 == [S EXCEPT !.loads = Tail(@)]
         s1 == importLoaded(s0, Head(loads).doc, Head(loads).portfolio)
     IN /\ Len(s1.portfolio) <= MaxTickers
        /\ s1.nextId <= MaxIds
        /\ Commit(AfterRender(S, s1))
  /\ UNCHANGED mounted

\* the user closes the alert
DismissAlert ==
  /\ alerting
  /\ Commit([S EXCEPT !.alerting = FALSE])
  /\ UNCHANGED mounted

\* fetchFundData as updateSingleFund calls it: `symbol.padStart` (line 134,
\* before the try) throws for a symbol that is not a string
fetchFundDataCall(symbol, resPrimary, resValuation) ==
  IF IsNumberKey(symbol) \/ IsArrayKey(symbol) THEN Rejected
  ELSE fetchFundData(symbol, resPrimary, resValuation)

ImportSymbols == {SymA, SymB, SymbolKey(Num(161725, 0))}
ImportFundData ==
  [symbol \in ImportSymbols |->
     {fetchFundDataCall(symbol, Null, v) :
        v \in {Null, Str(<<"jsonpgz", "(", "{full}", ")", ";">>)}}]

ImportFetchDone ==
  \E r \in 1..MaxRuns, w \in 1..WorkerCap : FetchDone(r, w, ImportFundData)

AppNext ==
  \/ Mount
  \/ AppFetchDone
  \/ AppIndexDone
  \/ FundTimerFire
  \/ IndexTimerFire
  \/ PollDone(AppIndexData)
  \/ ClickRefresh
  \/ OpenModal
  \/ CloseModal
  \/ SubmitAdd
  \/ EnterSelection
  \/ ExitSelection
  \/ toggleSelect
  \/ toggleSelectAll
  \/ handleRemoveClick
  \/ handleBulkRemoveClick
  \/ ConfirmDelete
  \/ cancelDelete

\* the scheduler alone: no removal, no selection
SchedNext ==
  \/ Mount
  \/ AppFetchDone
  \/ AppIndexDone
  \/ FundTimerFire
  \/ IndexTimerFire
  \/ PollDone(AppIndexData)
  \/ ClickRefresh
  \/ OpenModal
  \/ CloseModal
  \/ SubmitAdd

\* one refresh after the other over a stored watchlist of up to MaxBatch
\* tickers
MaxBatch == 6
StoredBatch(n) == [i \in 1..n |-> Ticker(RandomIds[i], Sym(i), <<>>)]
BatchFundData ==
  [symbol \in {Sym(k) : k \in 1..9} \cup {SymB} |->
     {fetchFundData(symbol, Null, v) :
        v \in {Null, Str(<<"jsonpgz", "(", "{full}", ")", ";">>)}}]

BatchInit == pxIdle /\ fdIdle /\ miIdle /\ psIdle /\ \E n \in 0..MaxBatch : AppInitWith(StoredBatch(n))

BatchFetchDone ==
  \E r \in 1..MaxRuns, w \in 1..WorkerCap : FetchDone(r, w, BatchFundData)

BatchNext ==
  \/ Mount
  \/ BatchFetchDone
  \/ AppIndexDone
  \/ ClickRefresh

\* a stored watchlist of n tickers; those at the positions `nums` were
\* imported with a number as their symbol
NumSym(k) == SymbolKey(Num(161720 + k, 0))
StoredMixed(n, nums) ==
  [i \in 1..n |-> Ticker(RandomIds[i], IF i \in nums THEN NumSym(i) ELSE Sym(i), <<>>)]

PoolInit ==
  /\ pxIdle /\ fdIdle /\ miIdle /\ psIdle
  /\ \E n \in 0..MaxBatch : \E nums \in SUBSET (1..n) : AppInitWith(StoredMixed(n, nums))

PoolFundData ==
  [symbol \in {Sym(k) : k \in 1..MaxBatch} \cup {NumSym(k) : k \in 1..MaxBatch} |->
     {fetchFundDataCall(symbol, Null, v) :
        v \in {Null, Str(<<"jsonpgz", "(", "{full}", ")", ";">>)}}]

PoolFetchDone ==
  \E r \in 1..MaxRuns, w \in 1..WorkerCap : FetchDone(r, w, PoolFundData)

\* the refresh of the mount effect over the stored watchlist
PoolNext ==
  \/ Mount
  \/ PoolFetchDone
  \/ AppIndexDone

SpecPool == PoolInit /\ [][PoolNext]_vars

\* a ticker is added to a stored watchlist while its refresh runs
OverlapAdd == SubmitAddWithin(WorkerCap + 1, WorkerCap + 1)

\* a stored watchlist that fills the pool of its refresh, or nearly
OverlapInit ==
  pxIdle /\ fdIdle /\ miIdle /\ psIdle /\ \E n \in {WorkerCap - 1, WorkerCap} : AppInitWith(StoredBatch(n))

OverlapNext ==
  \/ Mount
  \/ BatchFetchDone
  \/ AppIndexDone
  \/ OpenModal
  \/ CloseModal
  \/ OverlapAdd

SpecOverlap == OverlapInit /\ [][OverlapNext]_vars

\* mounting, teardown and changes of the watchlist's size
TimersNext ==
  \/ Mount
  \/ Unmount
  \/ AppFetchDone
  \/ AppIndexDone
  \/ OpenModal
  \/ CloseModal
  \/ SubmitAdd

\* the page is opened over stored values of any shape
LoadInit == pxIdle /\ fdIdle /\ miIdle /\ psIdle /\ AppFresh(<<>>) /\ lsStored

LoadNext == LoadState /\ UNCHANGED <<pxVars, fdVars, miVars, psVars, uiVars>>

SpecLoad == LoadInit /\ [][LoadNext]_vars

Init == pxIdle /\ fdIdle /\ miIdle /\ psIdle /\ AppInit

ProxyInit == Init
\* add and import
ImportNext ==
  \/ Mount
  \/ ChooseFile
  \/ FileLoaded
  \/ DismissAlert
  \/ ImportFetchDone
  \/ AppIndexDone
  \/ OpenModal
  \/ CloseModal
  \/ SubmitAdd

SpecImport == Init /\ [][ImportNext]_vars

\* the same code typed twice into the add dialog
WatchlistInputs == AddInputs \cup { <<SymA, SymA>> }
WatchlistAdd == SubmitAddOf(WatchlistInputs, MaxTickers, MaxIds)

\* adding tickers and removing single tickers
WatchlistNext ==
  \/ Mount
  \/ AppFetchDone
  \/ AppIndexDone
  \/ OpenModal
  \/ CloseModal
  \/ WatchlistAdd
  \/ handleRemoveClick
  \/ ConfirmDelete
  \/ cancelDelete

SpecWatchlist == Init /\ [][WatchlistNext]_vars

\* the fetches of a ticker that is added: the live-valuation endpoint fails
\* or answers with one of two different records
RaceFundData ==
  [symbol \in AppSymbols |->
     {fetchFundData(symbol, Null, v) :
        v \in {Null, Str(<<"jsonpgz", "(", "{full}", ")", ";">>),
               Str(<<"jsonpgz", "(", "{partial}", ")", ";">>)}}]

RaceFetchDone ==
  \E r \in 1..MaxRuns, w \in 1..WorkerCap : FetchDone(r, w, RaceFundData)

\* tickers are added and never removed; refreshAll runs from the effect only
RaceNext ==
  \/ Mount
  \/ RaceFetchDone
  \/ AppIndexDone
  \/ OpenModal
  \/ CloseModal
  \/ SubmitAdd

SpecRace == Init /\ [][RaceNext]_vars

\* ------------------------------------------------------------------------
\* handleExport, and the import of the exported file
\* ------------------------------------------------------------------------
\* the symbol of a ticker as JSON.stringify writes and JSON.parse reads it
SymbolValue(symbol) ==
  CASE IsNumberKey(symbol) -> Num(DigitsValue(Tail(symbol)), 0)
    [] IsArrayKey(symbol) -> Arr(<<Str(Tail(symbol))>>)
    [] OTHER -> Str(symbol)

\* JSON.parse(JSON.stringify(portfolio, null, 2)): the document in the file
Stringify(p) ==
  Arr([i \in 1..Len(p) |->
         Obj([id |-> Str(<<p[i].id>>), symbol |-> SymbolValue(p[i].symbol),
              name |-> Str(p[i].name)])])

\* handleExport: the file holds the watchlist of the render (`portfolio`
\* keeps that watchlist as the tickers it was written from)
handleExport ==
  /\ UIFree
  /\ ~alerting
  /\ exported' = [doc |-> Stringify(portfolio), portfolio |-> portfolio]
  /\ UNCHANGED <<pxVars, fdVars, miVars, psVars, uiVars, lsPortfolio, lsMarketData,
                 lsSortOrder, ldPc, ldPortfolio, ldMarketData, ldSortOrder>>

\* handleImport: the user picks the exported file
ChooseExported ==
  /\ UIFree
  /\ ~alerting
  /\ exported # Null
  /\ Len(loads) < MaxLoads
  /\ Commit([S EXCEPT !.loads = Append(@, [doc |-> exported.doc, portfolio |-> portfolio])])
  /\ UNCHANGED mounted

\* the watchlists of earlier sessions: empty, added through the dialog,
\* imported with a name and with a number as symbol, with one symbol twice,
\* imported with an array of one string as symbol
ArrSym == SymbolKey(Arr(<<Str(Sym(2))>>))
RoundTripLists ==
  { <<>>,
    <<Ticker("r1", SymA, <<>>)>>,
    <<Ticker("r1", SymB, <<"B">>), Ticker("r2", NumSym(5), <<>>)>>,
    <<Ticker("r1", SymA, <<>>), Ticker("r2", SymA, <<"V">>)>>,
    <<Ticker("r1", ArrSym, <<>>)>> }

RoundTripInit ==
  pxIdle /\ fdIdle /\ miIdle /\ psIdle /\ \E stored \in RoundTripLists : AppInitWith(stored)

RoundTripFundData ==
  [symbol \in {SymA, SymB, NumSym(5), ArrSym} |->
     {fetchFundDataCall(symbol, Null, v) :
        v \in {Null, Str(<<"jsonpgz", "(", "{full}", ")", ";">>)}}]

RoundTripFetchDone ==
  \E r \in 1..MaxRuns, w \in 1..WorkerCap : FetchDone(r, w, RoundTripFundData)

\* a watchlist is exported, tickers are removed one by one, and the file is
\* imported
RoundTripNext ==
  \/ Mount
  \/ RoundTripFetchDone
  \/ AppIndexDone
  \/ handleExport
  \/ ChooseExported
  \/ FileLoaded
  \/ handleRemoveClick
  \/ ConfirmDelete
  \/ cancelDelete

SpecRoundTrip == RoundTripInit /\ [][RoundTripNext]_vars

ProxyNext ==
  \/ pxCall /\ UNCHANGED <<fdVars, miVars, psVars, appVars>>
  \/ pxFetchError /\ UNCHANGED <<fdVars, miVars, psVars, appVars>>
  \/ pxTimeout /\ UNCHANGED <<fdVars, miVars, psVars, appVars>>
  \/ pxResponse /\ UNCHANGED <<fdVars, miVars, psVars, appVars>>
  \/ pxText /\ UNCHANGED <<fdVars, miVars, psVars, appVars>>
  \/ pxTextError /\ UNCHANGED <<fdVars, miVars, psVars, appVars>>
SpecProxy == ProxyInit /\ [][ProxyNext]_vars

FundInit == Init
FundNext ==
  \/ fdCall /\ UNCHANGED <<pxVars, miVars, psVars, appVars>>
  \/ fdSettlePrimary /\ UNCHANGED <<pxVars, miVars, psVars, appVars>>
  \/ fdSettleValuation /\ UNCHANGED <<pxVars, miVars, psVars, appVars>>
  \/ fdMerge /\ UNCHANGED <<pxVars, miVars, psVars, appVars>>
IndicesNext ==
  \/ miCall /\ UNCHANGED <<pxVars, fdVars, psVars, appVars>>
  \/ (\E i \in 1..2 : miContentArrives(i)) /\ UNCHANGED <<pxVars, fdVars, psVars, appVars>>
  \/ (\E i \in 1..2 : miIndexSettles(i)) /\ UNCHANGED <<pxVars, fdVars, psVars, appVars>>
  \/ miReturn /\ UNCHANGED <<pxVars, fdVars, psVars, appVars>>

SpecIndices == Init /\ [][IndicesNext]_vars

\* one index poll after the other
PollNext ==
  \/ miCall /\ UNCHANGED <<pxVars, fdVars, psVars, appVars>>
  \/ (\E i \in 1..2 : miContentArrives(i)) /\ UNCHANGED <<pxVars, fdVars, psVars, appVars>>
  \/ (\E i \in 1..2 : miIndexSettles(i)) /\ UNCHANGED <<pxVars, fdVars, psVars, appVars>>
  \/ miReturn /\ UNCHANGED <<pxVars, fdVars, psVars, appVars>>
  \/ miApply

SpecPoll == Init /\ [][PollNext]_vars

SpecTimers == Init /\ [][TimersNext]_vars

ParsersNext ==
  \/ psCall /\ UNCHANGED <<pxVars, fdVars, miVars, appVars>>
  \/ psParseJsonpgz /\ UNCHANGED <<pxVars, fdVars, miVars, appVars>>
  \/ psExtractVar /\ UNCHANGED <<pxVars, fdVars, miVars, appVars>>

SpecParsers == Init /\ [][ParsersNext]_vars

SpecFund == FundInit /\ [][FundNext]_vars

SpecApp == Init /\ [][AppNext]_vars

SpecSched == Init /\ [][SchedNext]_vars

SpecBatch == BatchInit /\ [][BatchNext]_vars

\* every fetchFundData and every fetchMarketIndices call returns
\* the 7 s timer of an attempt fires unless it is cleared first; the network
\* itself owes no answer
TimersFire == WF_vars(pxTimeout /\ UNCHANGED <<fdVars, miVars, psVars, appVars>>)

FairSpecProxy == SpecProxy /\ TimersFire

FetchesReturn ==
  \A r \in 1..MaxRuns :
    /\ WF_vars(\E w \in 1..WorkerCap : FetchDone(r, w, AppFundData))
    /\ WF_vars(IndexDone(r, AppIndexData))

FairSpecSched == SpecSched /\ FetchesReturn

\* the same for the fetches of imported tickers, which may also reject
ImportFetchesSettle ==
  \A r \in 1..MaxRuns :
    /\ WF_vars(\E w \in 1..WorkerCap : FetchDone(r, w, ImportFundData))
    /\ WF_vars(IndexDone(r, AppIndexData))

FairSpecImport == SpecImport /\ ImportFetchesSettle

\* ------------------------------------------------------------------------
\* Properties of fetchWithProxy (SpecProxy)
\* ------------------------------------------------------------------------
\* the attempt answered with o is one the call pxValidator was passed to
\* returns from: an OK response with a non-empty body the validator accepts
pxValid(o) == o.kind = "body" /\ o.text # <<>> /\ Validate(pxValidator, o.text)

\* C1: fetchWithProxy requests the strategies strictly in list order and
\* returns the body of the first attempt whose response is OK and whose body
\* passes the validator, issuing no request after it; an attempt that fails
\* (network error, timeout, non-OK status, empty body, validator rejection)
\* never ends the call while a later strategy remains.
C1_FirstValidInOrder ==
  /\ Len(pxRequests) <= NumProxies
  /\ pxRequests = SubSeq(proxies, 1, Len(pxRequests))
  /\ Len(pxNet) <= Len(pxRequests)
  /\ \A k \in 1..Len(pxNet) :
       IF pxValid(pxNet[k])
       THEN /\ pxPc = "done"
            /\ k = Len(pxNet)
            /\ Len(pxRequests) = k
            /\ pxResult = Str(pxNet[k].text)
       ELSE k < NumProxies => Len(pxRequests) > k
  /\ (pxPc = "done" /\ pxResult # Null) =>
       /\ Len(pxNet) > 0
       /\ pxValid(pxNet[Len(pxNet)])

\* strategies 1 and 2 fail (timeout, non-OK status) and strategy 3 delivers
\* a body the validator accepts
C1_Witness ==
  /\ pxPc = "done"
  /\ pxResult # Null
  /\ Len(pxRequests) = 3
  /\ pxNet[1].kind = "timeout"
  /\ pxNet[2].kind = "status"

\* C2: when every strategy fails, fetchWithProxy returns null and each
\* strategy of the list has been attempted exactly once; in no call is a
\* strategy attempted twice.
C2_EachStrategyOnce ==
  /\ \A i, j \in 1..Len(pxRequests) : pxRequests[i] = pxRequests[j] => i = j
  /\ (pxPc = "done" /\ \A k \in 1..Len(pxNet) : ~pxValid(pxNet[k])) =>
       /\ pxResult = Null
       /\ pxRequests = proxies
       /\ Len(pxNet) = NumProxies

\* the four strategies fail in four different ways
C2_Witness ==
  /\ pxPc = "done"
  /\ pxResult = Null
  /\ Len(pxNet) = NumProxies
  /\ pxNet[1].kind = "error"
  /\ pxNet[2].kind = "timeout"
  /\ pxNet[3].kind = "status"
  /\ pxNet[4].kind = "body"
  /\ pxNet[4].text # <<>>

\* ------------------------------------------------------------------------
\* Properties of fetchFundData (SpecFund)
\* ------------------------------------------------------------------------
RecordFields ==
  {"symbol", "name", "currentPrice", "previousPrice", "changePercentage",
   "lastUpdated", "valuationDate", "sourceUrl"}

\* a record in which every field is defined and every numeric field is a
\* number
FullyPopulated(v) ==
  /\ v.t = "obj"
  /\ DOMAIN v.f = RecordFields
  /\ \A k \in RecordFields : v.f[k] \notin {Undefined, Null}
  /\ \A k \in {"currentPrice", "previousPrice", "changePercentage"} : IsNumber(v.f[k])

\* C3: fetchFundData returns null whenever neither source yields a parsed
\* record (also when a body passed its validator but the JSONP parse gave
\* null), and a fully populated record whenever at least one parsed record
\* is present.
C3_MergeTotal ==
  fdPc = "done" =>
    IF valInfoOf(fdValuation) = Null /\ ~baseInfoPresent(fdPrimary)
    THEN fdResult = Null
    ELSE FullyPopulated(fdResult)

\* ------------------------------------------------------------------------
\* Properties of the batch update scheduler (SpecSched, SpecBatch)
\* ------------------------------------------------------------------------
Settled == mounted /\ ActiveRuns = {} /\ polls = 0

\* C4: no fetch path throws: whatever the network does, fetchFundData
\* resolves to a record or null, fetchMarketIndices resolves to a list, and
\* no updateSingleFund / runBatchUpdate / refreshAll promise rejects.
C4_NoFetchPathThrows ==
  /\ \A data \in FundDataResults : data = Null \/ data.t = "obj"
  /\ \A data \in IndexDataResults : data.t = "arr"
  /\ \A symbol \in AppSymbols : Rejected \notin AppFundData[symbol]
  /\ Rejected \notin AppIndexData
  /\ ~unhandled
  /\ \A r \in ActiveRuns : ~runs[r].rejected

\* C5: within one runBatchUpdate call on n tickers at most min(5, n)
\* fetchFundData calls started by it are in flight at any moment.
C5_WorkerCap ==
  \A r \in ActiveRuns : InFlight(r) <= Min(5, runs[r].size)

\* a batch over more than five tickers with five fetches in flight and
\* tickers still queued
C5_Witness ==
  \E r \in ActiveRuns :
    /\ runs[r].size > 5
    /\ InFlight(r) = 5
    /\ Len(runs[r].queue) > 0

\* C6: provided every fetchFundData call returns, every runBatchUpdate call
\* eventually completes with its queue empty, and once all started batches
\* have completed the in-flight counter is exactly 0, also when fetches
\* returned null and when batches overlapped.
C6_BatchesDrain ==
  /\ \A r \in 1..MaxRuns : (InFlight(r) > 0) ~> (InFlight(r) = 0)
  /\ [](\A r \in ActiveRuns : InFlight(r) = 0 => runs[r].queue = <<>>)
  /\ [][\A r \in 1..MaxRuns :
          (runs[r] # NoRun /\ runs'[r] = NoRun) => runs[r].queue = <<>>]_vars
  /\ []((\A r \in 1..MaxRuns : InFlight(r) = 0) => backgroundTasks = 0)

\* two tickers, every batch completed, one of the fetches returned null
C6_Witness ==
  /\ Settled
  /\ backgroundTasks = 0
  /\ Len(portfolio) = 2
  /\ DOMAIN marketData = {SymA}

\* C7: at any time at most one refreshAll execution is in progress.
C7_OneRefreshAtATime ==
  Cardinality({r \in ActiveRuns : runs[r].kind = "refresh"}) <= 1

\* C8: every refreshAll that set the refreshing flag eventually finishes,
\* and when its batch update (and index refresh) has finished isRefreshing
\* is false, whatever number of fetches failed.
C8_FlagCleared ==
  /\ \A r \in 1..MaxRuns : (runs[r].kind = "refresh") ~> (runs[r] = NoRun)
  /\ [][\A r \in 1..MaxRuns :
          (runs[r].kind = "refresh" /\ runs'[r] = NoRun) => ~isRefreshing']_vars

\* ------------------------------------------------------------------------
\* Properties of the watchlist store (SpecApp)
\* ------------------------------------------------------------------------
\* C9: confirming a bulk delete removes from the watchlist exactly the
\* tickers whose ids are selected, keeping the order of the others, and
\* leaves the valuation mapping without a key equal to a removed ticker's
\* symbol.
C9_BulkDeleteExact ==
  [][(pendingDelete # Null /\ pendingDelete.bulk /\ pendingDelete' = Null
        /\ ~isSelectionMode')
     => /\ portfolio' = SelectSeq(portfolio, LAMBDA t : t.id \notin selectedIds)
        /\ \A i \in 1..Len(portfolio) :
             portfolio[i].id \in selectedIds =>
               portfolio[i].symbol \notin DOMAIN marketData']_vars

\* C10: starting from empty stores, once no fetch is in flight every key of
\* the valuation mapping is the symbol of a ticker of the watchlist.
C10_NoOrphanAtRest ==
  (\A r \in 1..MaxRuns : InFlight(r) = 0) =>
    DOMAIN marketData \subseteq {portfolio[i].symbol : i \in 1..Len(portfolio)}

\* ------------------------------------------------------------------------
\* Properties of import and add (SpecImport)
\* ------------------------------------------------------------------------
\* the symbol, as /^\d{5,6}$/.test reads it, is 5 or 6 decimal digits
MatchesPattern(symbol) ==
  IsSymbol(IF IsNumberKey(symbol) \/ IsArrayKey(symbol) THEN Tail(symbol) ELSE symbol)

NoSymbolTwice(p) == \A i, j \in 1..Len(p) : p[i].symbol = p[j].symbol => i = j

\* the step is the delivery of an imported document
ImportStep == Len(loads') < Len(loads)

\* C11: import appends only entries whose symbol matches the 5-6 digit
\* pattern and is not already present; importing the same document a second
\* time adds nothing, and no symbol occurs twice in the watchlist.
C11_ImportMergesOnce ==
  [][ImportStep =>
       LET doc == Head(loads).doc
           added == SubSeq(portfolio', Len(portfolio) + 1, Len(portfolio'))
       IN /\ portfolio' = portfolio \o added
          /\ \A i \in 1..Len(added) :
               /\ MatchesPattern(added[i].symbol)
               /\ added[i].symbol \notin {portfolio[k].symbol : k \in 1..Len(portfolio)}
          /\ importLoaded(S', doc, portfolio').portfolio = portfolio'
          /\ NoSymbolTwice(portfolio) => NoSymbolTwice(portfolio')]_vars

\* a document that is not JSON, not an array, or an array with a null or
\* non-object element
Malformed(doc) ==
  \/ doc = Rejected
  \/ doc.t # "arr"
  \/ \E i \in 1..Len(doc.a) : doc.a[i].t # "obj"

\* C12: importing a malformed document raises the alert, leaves the
\* watchlist, the valuation mapping and the in-flight counter unchanged and
\* starts no fetch.
C12_MalformedImportAlerts ==
  [][(ImportStep /\ Malformed(Head(loads).doc)) =>
       /\ alerting'
       /\ portfolio' = portfolio
       /\ marketData' = marketData
       /\ backgroundTasks' = backgroundTasks
       /\ runs' = runs]_vars

C14_ValidatesBeforeRequest ==
  /\ (fdSymbol # <<>> /\ ~IsSymbol(fdSymbol)) =>
       /\ fdPc = "done"
       /\ fdResult = Null
       /\ fdPrimary = Undefined
       /\ fdValuation = Undefined
  /\ (fdRequested /\ IsSymbol(fdSymbol)) => fdCode = fdSymbol

\* C15: the record fetchFundData returns depends only on what the two
\* sources delivered, not on the order in which the two fetches completed.
C15_OrderIndependent ==
  fdPc = "done" => fdResult = fetchFundData(fdSymbol, fdPrimary, fdValuation)

\* the live valuation arrived before the profile script, both with a body
C15_Witness ==
  /\ fdPc = "done"
  /\ fdOrder = <<"valuation", "primary">>
  /\ fdPrimary # Null
  /\ fdValuation # Null
  /\ fdResult # Null

\* the value the claims call "chosen": the live valuation's when it is
\* present (non-empty), else the profile script's, else the default
Chosen(field, default) ==
  LET secondary == Get(valInfoOf(fdValuation), field)
      primary == Get(baseInfoOf(fdPrimary), field)
  IN IF Truthy(secondary) THEN secondary
     ELSE IF Truthy(primary) THEN primary
     ELSE default

Merged == fdPc = "done" /\ fdResult # Null

\* name and changePercentage of the merged record follow the chosen value
NameAndChangeChosen ==
  Merged =>
    /\ fdResult.f.name = Chosen("name", Str(NamePlaceholder(fdCode)))
    /\ fdResult.f.changePercentage = parseFloat(Chosen("gszzl", Str(<<"0">>)))

\* lastUpdated is the chosen time, as it is or in its display form
LastUpdatedChosen ==
  Merged =>
    LET time == Chosen("gztime", Str(Loading))
    IN fdResult.f.lastUpdated \in
         {time, Str(TodayMMDD \o <<" ">> \o time.s), Str(Substring(time.s, 5))}

ValuationDateChosen ==
  Merged => fdResult.f.valuationDate = Chosen("jzrq", Str(NoDate))

\* C16: every field of the merged record takes the live valuation's value
\* when present, else the profile script's, else its default: a placeholder
\* with the symbol for the name, 0 for changePercentage, the placeholders of
\* lastUpdated and valuationDate.
C16_SecondaryThenPrimaryThenDefault ==
  NameAndChangeChosen /\ LastUpdatedChosen /\ ValuationDateChosen

\* C17: previousPrice of the merged record is 0 whenever the chosen previous
\* value is absent or is a string that does not parse as a number, and it is
\* never a non-number.
C17_PreviousPriceNumber ==
  Merged =>
    LET previous == Chosen("dwjz", Undefined)
    IN /\ fdResult.f.previousPrice.t = "num"
       /\ (previous = Undefined \/ (IsStr(previous) /\ ParseFloatStr(previous.s) = NaN))
            => fdResult.f.previousPrice = Num(0, 0)

\* HH:MM
IsShortTime(s) ==
  /\ Len(s) = 5
  /\ s[3] = ":"
  /\ \A i \in {1, 2, 4, 5} : IsDigit(s[i])

\* YYYY-MM-DD HH:MM:SS
IsLongTime(s) ==
  /\ Len(s) = 19
  /\ s[5] = "-" /\ s[8] = "-" /\ s[11] = " " /\ s[14] = ":" /\ s[17] = ":"
  /\ \A i \in (1..19) \ {5, 8, 11, 14, 17} : IsDigit(s[i])

\* C18: the time of the merged record is the chosen time normalised: a short
\* HH:MM time is prefixed with today's MM-DD and a space, a long
\* YYYY-MM-DD HH:MM:SS time loses its leading year and dash, and any other
\* time string, the default placeholder included, is passed through
\* unchanged.
C18_TimeNormalised ==
  Merged =>
    LET time == Chosen("gztime", Str(Loading))
    IN IsStr(time) =>
         fdResult.f.lastUpdated =
           IF IsShortTime(time.s) THEN Str(TodayMMDD \o <<" ">> \o time.s)
           ELSE IF IsLongTime(time.s) THEN Str(SubSeq(time.s, 6, 19))
           ELSE time

\* the fetch of index i found a body and the body parsed to a document with
\* a data object
IndexSucceeded(i) ==
  /\ miContent[i].t = "str"
  /\ LET json == JSONParse(miContent[i].s)
     IN json.t = "obj" /\ "data" \in DOMAIN json.f /\ json.f.data.t = "obj"

\* the requests that succeeded, in the order of the requests
IndexSuccesses ==
  (IF IndexSucceeded(1) THEN <<1>> ELSE <<>>) \o (IF IndexSucceeded(2) THEN <<2>> ELSE <<>>)

\* C19: fetchMarketIndices returns exactly the indices whose fetch and parse
\* both succeeded, in the order of the requests; an index that failed
\* neither removes the other one nor makes the call fail.
C19_IndicesThatSucceeded ==
  miPc = "done" =>
    /\ miResult.t = "arr"
    /\ Len(miResult.a) = Len(IndexSuccesses)
    /\ \A k \in 1..Len(IndexSuccesses) :
         /\ miResult.a[k].t = "obj"
         /\ miResult.a[k].f.symbol = Str(<<SecIds[IndexSuccesses[k]][3]>>)

\* the first index came back as a truncated document, the second one whole
C19_Witness ==
  /\ miPc = "done"
  /\ miContent[1] = Str(<<"{data">>)
  /\ IndexSucceeded(2)
  /\ miResult.t = "arr"
  /\ Len(miResult.a) = 1

\* C20: every call of fetchWithProxy eventually returns, whatever the
\* network does: each attempt ends by a response, an error or its own
\* timeout abort, also when the status of a response has arrived and its
\* body never finishes arriving.
C20_EveryCallReturns == (pxPc \in {"fetch", "text"}) ~> (pxPc = "done")

\* the fetchFundData calls in flight in the whole application
RECURSIVE SumInFlight(_)
SumInFlight(r) == IF r = 0 THEN 0 ELSE InFlight(r) + SumInFlight(r - 1)
TotalInFlight == SumInFlight(MaxRuns)

\* C21: across the whole application, overlapping triggers included (an add
\* or import batch started while a refresh runs, the refresh a change of the
\* watchlist's size triggers), at most 5 fetchFundData calls are in flight
\* at any moment.
C21_GlobalCap == TotalInFlight <= 5

\* a stored text is missing, unparseable, or parses to a value that is not
\* of the kind the store holds
IllStored(saved, kind) ==
  \/ saved = Null
  \/ JSONParse(saved.s) = Rejected
  \/ JSONParse(saved.s).t # kind

SortOrders == IF variant = "App" THEN {"none", "asc", "desc"} ELSE {"asc", "desc"}

\* C22: loading persisted state never yields an ill-formed store: for a
\* missing, unparseable or wrongly shaped stored value the watchlist starts
\* as an empty list, the valuation mapping as an empty mapping, and the sort
\* order is a member of its enum, 'desc' by default.
C22_LoadWellFormed ==
  ldPc = "loaded" =>
    /\ IllStored(lsPortfolio, "arr") => ldPortfolio = Arr(<<>>)
    /\ IllStored(lsMarketData, "obj") => ldMarketData = Obj(<<>>)
    /\ ldSortOrder \in {Str(<<o>>) : o \in SortOrders}
    /\ lsSortOrder = Null => ldSortOrder = Str(<<"desc">>)

Armed(kind) == {i \in 1..Len(intervals) : intervals[i].kind = kind}

\* C23: at any time at most one 120 s refresh timer, and in part_000 at most
\* one 30 s index timer, is armed: a change of the watchlist's size clears
\* the timers armed before and arms new ones, and after teardown no timer
\* remains armed.
C23_OneTimerEach ==
  /\ Cardinality(Armed("fund")) <= 1
  /\ Cardinality(Armed("index")) <= (IF variant = "part_000" THEN 1 ELSE 0)
  /\ ~mounted => intervals = <<>>

\* the timers armed are those of the effect that ran after a ticker was added
C23_Witness ==
  /\ mounted
  /\ Len(portfolio) > 0
  /\ Armed("fund") # {}
  /\ \A i \in Armed("fund") : intervals[i].portfolio = portfolio

\* the items of run r that have not completed: queued or in flight
Pending(r) == IF runs[r] = NoRun THEN 0 ELSE Len(runs[r].queue) + InFlight(r)

RECURSIVE SumPending(_)
SumPending(r) == IF r = 0 THEN 0 ELSE Pending(r) + SumPending(r - 1)

\* C24: runBatchUpdate on n tickers raises the in-flight counter by n before
\* any fetch of the batch starts and each completed item lowers it by one: in
\* every reachable state the counter is >= 0 and equals the number of items
\* of started batches that have not yet completed (queued or in flight).
C24_CounterIsPending ==
  /\ backgroundTasks >= 0
  /\ backgroundTasks = SumPending(MaxRuns)

\* C25: within one runBatchUpdate call every ticker of the batch is pulled
\* from the shared queue by exactly one worker and fetched exactly once: no
\* ticker is fetched by two workers, and none is left unfetched when the
\* call completes, under every interleaving of the workers.
C25_EachTickerOnce ==
  /\ [](\A r \in ActiveRuns : runs[r].pulled \o runs[r].queue = runs[r].targets)
  /\ [][\A r \in 1..MaxRuns :
          (runs[r] # NoRun /\ runs'[r] = NoRun) => runs[r].pulled = runs[r].targets]_vars

\* worker w of run r finishes its updateSingleFund in this step
FetchFinishes(r, w) ==
  /\ runs[r] # NoRun
  /\ w \in Busy(runs[r])
  /\ runs'[r] = NoRun \/ runs'[r].workers[w] # runs[r].workers[w]

\* the step wrote a record for symbol and named the unnamed tickers of symbol
WroteRecord(symbol) ==
  /\ symbol \in DOMAIN marketData'
  /\ marketData'[symbol].t = "obj"
  /\ DOMAIN marketData' = DOMAIN marketData \cup {symbol}
  /\ \A k \in DOMAIN marketData : k # symbol => marketData'[k] = marketData[k]
  /\ Len(portfolio') = Len(portfolio)
  /\ \A i \in 1..Len(portfolio) :
       portfolio'[i] =
         IF portfolio[i].symbol = symbol /\ portfolio[i].name = <<>>
         THEN [portfolio[i] EXCEPT !.name = marketData'[symbol].f.name.s]
         ELSE portfolio[i]

\* C26: a fetch that succeeds for symbol s replaces the mapping entry of s
\* wholesale and sets the name of every watchlist ticker with symbol s whose
\* name is empty, leaving every non-empty name and every other ticker and
\* mapping entry unchanged; a fetch that returns null changes neither the
\* watchlist nor the mapping.
C26_FetchFrame ==
  [][\A r \in 1..MaxRuns, w \in 1..WorkerCap :
       FetchFinishes(r, w) =>
         \/ portfolio' = portfolio /\ marketData' = marketData
         \/ WroteRecord(runs[r].workers[w])]_vars

\* a ticker imported under the name B has its record and kept its name
C26_Witness ==
  \E i \in 1..Len(portfolio) :
    /\ portfolio[i].name = <<"B">>
    /\ portfolio[i].symbol \in DOMAIN marketData
    /\ marketData[portfolio[i].symbol].f.name # Str(<<"B">>)

IsEnvelope(text) ==
  Len(text) >= 2 /\ text[1] = "{\"contents\":\"" /\ text[Len(text)] = "\"}"
Contents(text) == SubSeq(text, 2, Len(text) - 1)

\* C27: when a proxy strategy delivers its payload wrapped in a JSON
\* envelope, fetchWithProxy unwraps it: the validator is applied to, and the
\* caller receives, the inner contents rather than the envelope text.
C27_EnvelopeUnwrapped ==
  (pxPc = "done" /\ pxNet # <<>> /\ pxNet[Len(pxNet)].kind = "body"
     /\ IsEnvelope(pxNet[Len(pxNet)].text)) =>
    pxResult = IF Validate(pxValidator, Contents(pxNet[Len(pxNet)].text))
               THEN Str(Contents(pxNet[Len(pxNet)].text)) ELSE Null

\* the displayed list holds an entry for the index of request i
Displayed(list, i) ==
  \E k \in 1..Len(list) : list[k].f.symbol = Str(<<SecIds[i][3]>>)

\* C28: each index poll replaces the displayed market-index list wholesale
\* with the result of that poll: after a poll in which an index failed, the
\* displayed list no longer contains the earlier value of that index.
C28_PollReplacesList ==
  [][(miPc = "done" /\ miPc' = "idle") =>
       \A i \in 1..2 : ~IndexSucceeded(i) => ~Displayed(marketIndices', i)]_vars

Opens == {i \in 1..Len(psContent) : psContent[i] = "("}
Closes == {i \in 1..Len(psContent) : psContent[i] = ")"}
FirstOpen == CHOOSE i \in Opens : \A j \in Opens : i <= j
LastClose == CHOOSE i \in Closes : \A j \in Closes : i >= j

\* C29: parseJsonpgz returns the JSON value parsed from the text strictly
\* between the first '(' and the last ')' of its input, and returns null,
\* without throwing, when there is no '(', when the last ')' is not after
\* the first '(', or when that text is not valid JSON.
C29_ParseJsonpgz ==
  (psPc = "done" /\ psParser = "parseJsonpgz") =>
    /\ psOut # Rejected
    /\ IF Opens = {} \/ Closes = {} THEN psOut = Null
       ELSE IF LastClose <= FirstOpen THEN psOut = Null
       ELSE LET between == SubSeq(psContent, FirstOpen + 1, LastClose - 1)
            IN psOut = IF JSONParse(between) = Rejected THEN Null ELSE JSONParse(between)

\* a text with two closing parentheses: what lies before the last one is no
\* JSON, what lies before the first one is
C29_Witness ==
  /\ psPc = "done"
  /\ psParser = "parseJsonpgz"
  /\ Cardinality(Closes) = 2
  /\ Opens # {}
  /\ psOut = Null

\* the statements of the text that assign the named variable a quoted value,
\* and those that assign it a bare number
QuotedAt ==
  {i \in 1..Len(psContent) :
     /\ psContent[i] \in StmtTexts
     /\ Stmt(psContent[i]).var = psVarName
     /\ Stmt(psContent[i]).quoted}
BareAt ==
  {i \in 1..Len(psContent) :
     /\ psContent[i] \in StmtTexts
     /\ Stmt(psContent[i]).var = psVarName
     /\ ~Stmt(psContent[i]).quoted
     /\ NumRun(Stmt(psContent[i]).val) # <<>>}
FirstOf(positions) == CHOOSE i \in positions : \A j \in positions : i <= j

\* C30: extractVar returns the value of a quoted assignment of the named
\* variable when the text contains one (also when that value is the empty
\* string), otherwise the value of a bare numeric assignment of that
\* variable, and the empty string when the text contains neither.
C30_ExtractVar ==
  (psPc = "done" /\ psParser = "extractVar") =>
    psOut = IF QuotedAt # {} THEN Str(Trim(Stmt(psContent[FirstOf(QuotedAt)]).val))
            ELSE IF BareAt # {} THEN Str(NumRun(Stmt(psContent[FirstOf(BareAt)]).val))
            ELSE Str(<<>>)

\* ------------------------------------------------------------------------
\* Properties of add and removal together (SpecWatchlist)
\* ------------------------------------------------------------------------
\* C31: after any sequence of add, import and remove operations no two
\* tickers of the watchlist have the same symbol, also when one submission
\* or one document names a symbol more than once and when an import is
\* handled with the watchlist of an earlier render.
C31_SymbolsUnique ==
  \A i, j \in 1..Len(portfolio) : i # j => portfolio[i].symbol # portfolio[j].symbol

\* ------------------------------------------------------------------------
\* Further properties of the valuation mapping (SpecSched)
\* ------------------------------------------------------------------------
\* C32: every entry of the valuation mapping is stored under its own
\* symbol: for every key k the record's symbol field equals k, for 5-digit
\* as well as 6-digit watchlist symbols.
C32_StoredUnderOwnSymbol ==
  \A k \in DOMAIN marketData : Get(marketData[k], "symbol") = Str(k)

\* ------------------------------------------------------------------------
\* Overlapping fetches of one symbol (SpecRace)
\* ------------------------------------------------------------------------
\* Under SpecRace a symbol enters the watchlist once, and addTickers starts
\* the fetch of its batch before the effect on the new size calls refreshAll:
\* of all fetches of a symbol the one of the add batch started first, and an
\* entry the mapping holds while that fetch is in flight was written by a
\* fetch that started after it.
\* C33: when two fetches for the same symbol overlap, the entry left after
\* both complete is the result of the fetch that started last: the result
\* of an earlier-started fetch (the add batch's) never overwrites the result
\* of a later-started one (the refresh's).
C33_LastStartedWins ==
  [][\A r \in 1..MaxRuns, w \in 1..WorkerCap :
       (FetchFinishes(r, w) /\ runs[r].kind = "batch"
          /\ runs[r].workers[w] \in DOMAIN marketData) =>
         marketData'[runs[r].workers[w]] = marketData[runs[r].workers[w]]]_vars

\* ------------------------------------------------------------------------
\* The refreshing flag (SpecSched)
\* ------------------------------------------------------------------------
\* C34: whenever the refreshing flag is false no refreshAll execution is in
\* progress: the flag is true from the start of a refresh until the batch of
\* that refresh has completed, also when triggers from the timer, the
\* size-change effect and the button interleave.
C34_FlagCoversRefresh ==
  \A r \in ActiveRuns : runs[r].kind = "refresh" => isRefreshing

\* ------------------------------------------------------------------------
\* The fetches an add or an import starts (SpecImport)
\* ------------------------------------------------------------------------
\* the number of tickers handed to the batches that start between `before`
\* and `after`, in the slots 1..r
RECURSIVE TargetsStarted(_, _, _)
TargetsStarted(before, after, r) ==
  IF r = 0 THEN 0
  ELSE TargetsStarted(before, after, r - 1)
         + (IF before[r] = NoRun /\ after[r] # NoRun THEN Len(after[r].targets) ELSE 0)

\* C35: adding or importing new tickers starts fetches only for the newly
\* added tickers, one per new ticker: no ticker already in the watchlist is
\* fetched because of the add, and no new ticker is fetched twice.
C35_FetchesNewOnly ==
  [][Len(portfolio') > Len(portfolio) =>
       LET added == SubSeq(portfolio', Len(portfolio) + 1, Len(portfolio'))
           started == {r \in 1..MaxRuns : runs[r] = NoRun /\ runs'[r] # NoRun}
       IN /\ \A r \in started : \A k \in 1..Len(runs'[r].targets) :
               runs'[r].targets[k] \in {added[j].symbol : j \in 1..Len(added)}
          /\ TargetsStarted(runs, runs', MaxRuns) = Len(added)]_vars

\* ------------------------------------------------------------------------
\* The selection (SpecApp)
\* ------------------------------------------------------------------------
\* C36: the set of selected ids is always a subset of the ids of the tickers
\* in the watchlist, and it is empty whenever selection mode is off, after
\* any sequence of select, select-all, enter/exit selection mode, single
\* delete, bulk delete and add.
C36_SelectionWithinWatchlist ==
  /\ selectedIds \subseteq IdsOf(portfolio)
  /\ ~isSelectionMode => selectedIds = {}

\* ------------------------------------------------------------------------
\* Export followed by import (SpecRoundTrip)
\* ------------------------------------------------------------------------
\* the step delivers the exported file to a watchlist that did not change
\* since the file was chosen
ImportsExported ==
  /\ ImportStep
  /\ exported # Null
  /\ Head(loads).doc = exported.doc
  /\ Head(loads).portfolio = portfolio

\* C37: export followed by import round-trips the watchlist: importing the
\* document exported from a watchlist W into an empty watchlist yields a
\* watchlist with the same tickers (id, symbol, name) in the same order as
\* W, and importing it into W itself changes nothing.
C37_ExportImportRoundTrip ==
  [][ImportsExported =>
       /\ portfolio = <<>> => portfolio' = exported.portfolio
       /\ portfolio = exported.portfolio => portfolio' = portfolio]_vars

====
